---- MODULE Spec2Model ----
(***************************************************************************)
(* Model of the news query pipeline of the stock-news-app server           *)
(* (GET /api/news): express-validator checks, cache key derivation, the    *)
(* in-process node-cache layer, the persistent news_cache table, the       *)
(* provider fetch, annotation, persistence and pagination.                 *)
(*                                                                         *)
(* Strings are sequences of one-character strings, so that trimming,       *)
(* upper-casing, template concatenation and JavaScript's string/number     *)
(* coercions are computed rather than assumed.  Time is counted in         *)
(* seconds (the granularity of SQLite's datetime('now')).                  *)
(***************************************************************************)
EXTENDS Integers, Sequences, FiniteSets, TLC

\* ------------------------------------------------------------------------
\* Bounds of the model
\* ------------------------------------------------------------------------
MaxTime == 2
MaxRequests == 2

\* CACHE_TTL_SECONDS as configured in the environments of the modelled runs
\* (parseInt(process.env.CACHE_TTL_SECONDS) || 300 never yields 0).
DefaultTTL == 1
LongTTL == 2

\* rateLimit({ windowMs, max }): generalLimiter on /api/, apiLimiter on
\* GET /api/news and GET /api/stock/:symbol; windows in seconds
GENERAL_WINDOW == 900
GENERAL_MAX == 100
API_WINDOW == 60
API_MAX == 30

\* JWT_SECRET and JWT_EXPIRES_IN ('7d', in seconds)
JWT_SECRET == "JWT_SECRET"
JWT_EXPIRES_IN == 604800

\* setInterval period of the purge sweep, in seconds (5 * 60 * 1000 ms)
CLEANUP_INTERVAL == 300

\* Array.from({ length: 15 }, ...) in generateMockNews
MOCK_LENGTH == 15

\* ------------------------------------------------------------------------
\* Strings
\* ------------------------------------------------------------------------
Digits == <<"0", "1", "2", "3", "4", "5", "6", "7", "8", "9">>

IsDigit(c) == \E i \in 1..10 : Digits[i] = c

DigitVal(c) == (CHOOSE i \in 1..10 : Digits[i] = c) - 1

Min(a, b) == IF a < b THEN a ELSE b

Max(a, b) == IF a > b THEN a ELSE b

\* String.prototype.toUpperCase on the letters the model uses
UpperChar(c) ==
  CASE c = "a" -> "A" [] c = "p" -> "P" [] c = "l" -> "L"
    [] c = "f" -> "F" [] c = "o" -> "O" [] c = "r" -> "R"
    [] c = "e" -> "E" [] c = "x" -> "X" [] OTHER -> c

toUpperCase(s) == [i \in 1..Len(s) |-> UpperChar(s[i])]

RECURSIVE TrimLeft(_)
TrimLeft(s) == IF s # <<>> /\ Head(s) = " " THEN TrimLeft(Tail(s)) ELSE s

RECURSIVE TrimRight(_)
TrimRight(s) ==
  IF s # <<>> /\ s[Len(s)] = " " THEN TrimRight(SubSeq(s, 1, Len(s) - 1)) ELSE s

\* express-validator .trim() sanitizer
trim(s) == TrimRight(TrimLeft(s))

\* Number -> decimal string (template literal / String(n)), n >= 0
RECURSIVE NumToString(_)
NumToString(n) ==
  IF n < 10 THEN <<Digits[n + 1]>>
  ELSE NumToString(n \div 10) \o <<Digits[(n % 10) + 1]>>

\* decimal string -> Number (ToNumber / parseInt on a string of digits)
RECURSIVE DigitsToNum(_)
DigitsToNum(s) ==
  IF s = <<>> THEN 0
  ELSE 10 * DigitsToNum(SubSeq(s, 1, Len(s) - 1)) + DigitVal(s[Len(s)])

\* ------------------------------------------------------------------------
\* JavaScript values of the request parameters: undefined, a number (a
\* destructuring default) or a string (anything in req.query)
\* ------------------------------------------------------------------------
JSUndefined == [type |-> "undefined", num |-> 0, str |-> <<>>]

JSNum(n) == [type |-> "number", num |-> n, str |-> <<>>]

JSStr(s) == [type |-> "string", num |-> 0, str |-> s]

\* ToNumber, on numbers and digit strings
ToNumber(v) == IF v.type = "number" THEN v.num ELSE DigitsToNum(v.str)

\* ToString, as in a template literal
JSToString(v) == IF v.type = "number" THEN NumToString(v.num) ELSE v.str

\* the binary + operator: string concatenation as soon as one side is a string
JSAdd(a, b) ==
  IF a.type = "string" \/ b.type = "string"
    THEN JSStr(JSToString(a) \o JSToString(b))
    ELSE JSNum(a.num + b.num)

\* Array.prototype.slice(start, end) with 0-based half-open bounds
slice(arr, start, end) ==
  LET k == Min(Max(start, 0), Len(arr))
      final == Min(Max(end, 0), Len(arr))
  IN  IF k >= final THEN <<>> ELSE SubSeq(arr, k + 1, final)

\* the relational < between a value and a number: a string operand is
\* converted with ToNumber
JSLess(a, n) == ToNumber(a) < n

\* ------------------------------------------------------------------------
\* Validators of GET /api/news
\* ------------------------------------------------------------------------
S_general == <<"g", "e", "n", "e", "r", "a", "l">>
S_forex == <<"f", "o", "r", "e", "x">>
S_crypto == <<"c", "r", "y", "p", "t", "o">>
S_merger == <<"m", "e", "r", "g", "e", "r">>
S_news == <<"n", "e", "w", "s">>
S_Market == <<"M", "a", "r", "k", "e", "t">>

CATEGORIES == {S_general, S_forex, S_crypto, S_merger}

\* validator isInt(str, {min, max}); max = -1 stands for "no max"
isInt(s, min, max) ==
  /\ s # <<>>
  /\ \A i \in 1..Len(s) : IsDigit(s[i])
  /\ DigitsToNum(s) >= min
  /\ (max = -1 \/ DigitsToNum(s) <= max)

\* query('query').optional().trim().isLength({ min: 1, max: 10 })
ValidQuery(v) ==
  v.type = "undefined" \/ (Len(trim(v.str)) >= 1 /\ Len(trim(v.str)) <= 10)

\* query('category').optional().isIn([...])
ValidCategory(v) == v.type = "undefined" \/ v.str \in CATEGORIES

\* query('page').optional().isInt({ min: 1 })
ValidPage(v) == v.type = "undefined" \/ isInt(v.str, 1, -1)

\* the limit validator without its max option
ValidLimit_NoMax(v) == v.type = "undefined" \/ isInt(v.str, 1, -1)

\* query('limit').optional().isInt({ min: 1, max: 50 })
ValidLimit(v) == v.type = "undefined" \/ isInt(v.str, 1, 50)

\* validationResult(req).isEmpty()
validationOk(p) ==
  /\ ValidQuery(p.query)
  /\ ValidCategory(p.category)
  /\ ValidPage(p.page)
  /\ ValidLimit(p.limit)

\* req.query after the sanitizers ran and the handler destructured it with
\* its defaults: category = 'general', page = 1, limit = 20
Destructure(p) ==
  [searchQuery |-> IF p.query.type = "undefined" THEN JSUndefined
                   ELSE JSStr(trim(p.query.str)),
   category |-> IF p.category.type = "undefined" THEN JSStr(S_general)
                ELSE p.category,
   page |-> IF p.page.type = "undefined" THEN JSNum(1) ELSE p.page,
   limit |-> IF p.limit.type = "undefined" THEN JSNum(20) ELSE p.limit]

\* truthiness of searchQuery: undefined and '' are falsy
Truthy(v) == v.type = "string" /\ v.str # <<>>

\* searchQuery || category
Term(d) == IF Truthy(d.searchQuery) THEN d.searchQuery.str ELSE d.category.str

\* `news:${searchQuery || category}:${page}:${limit}`
cacheKey(d) ==
  S_news \o <<":">> \o Term(d) \o <<":">> \o JSToString(d.page)
         \o <<":">> \o JSToString(d.limit)

\* what fetchNewsFromFinnhub(searchQuery, category) asks the provider for
fetchNewsFromFinnhub(d) ==
  IF Truthy(d.searchQuery)
    THEN [url |-> "company-news", arg |-> toUpperCase(d.searchQuery.str)]
    ELSE [url |-> "news", arg |-> d.category.str]

\* ------------------------------------------------------------------------
\* Articles
\* ------------------------------------------------------------------------
\* A raw provider article: the i-th item of the answer to fetch number ver.
\* image is "undefined" when the provider sent none; comparative is the
\* sentiment library's comparative score of its text in hundredths;
\* ageHours is the age of the article at annotation time.
RawArticle(i, ver) ==
  [id |-> i,
   ver |-> ver,
   image |-> IF i % 2 = 0 THEN "undefined" ELSE "img",
   comparative |-> <<0, 60, -40, 20>>[((i + ver) % 4) + 1],
   ageHours |-> <<1, 5, 20>>[(i % 3) + 1]]

\* a labelling that leaves the middle range without a label
SentimentLabel_Unlabelled(comparative) ==
  IF comparative > 50 THEN "positive"
  ELSE IF comparative < -50 THEN "negative"
  ELSE "none"

\* label of analyzeSentiment
SentimentLabel(comparative) ==
  IF comparative > 50 THEN "positive"
  ELSE IF comparative < -50 THEN "negative"
  ELSE "neutral"

Abs(x) == IF x < 0 THEN -x ELSE x

\* an impact rule whose magnitude gates include 0.3 and 0.1
calculateImpact_Inclusive(ageHours, sentimentScore) ==
  IF ageHours < 2 /\ Abs(sentimentScore) >= 30 THEN "high"
  ELSE IF ageHours < 12 /\ Abs(sentimentScore) >= 10 THEN "medium"
  ELSE "low"

calculateImpact(ageHours, sentimentScore) ==
  IF ageHours < 2 /\ Abs(sentimentScore) > 30 THEN "high"
  ELSE IF ageHours < 12 /\ Abs(sentimentScore) > 10 THEN "medium"
  ELSE "low"

\* transformFinnhubNews, addSentimentToArticles and the impact map
AnnotateArticle(raw) ==
  [id |-> raw.id,
   ver |-> raw.ver,
   image |-> raw.image,
   sentiment |-> SentimentLabel(raw.comparative),
   sentimentScore |-> raw.comparative,
   impact |-> calculateImpact(raw.ageHours, raw.comparative)]

Annotate(rawArticles) ==
  [i \in 1..Len(rawArticles) |-> AnnotateArticle(rawArticles[i])]

\* generateMockNews: fifteen articles, indexes 0..14, with rotating impact
\* and sentiment labels; ver numbers the generation, and the Math.random
\* score is a value that varies with the article and the generation
MockArticle(i, ver) ==
  [id |-> i + 1,
   ver |-> ver,
   image |-> "absent",
   sentiment |-> <<"positive", "negative", "neutral">>[(i % 3) + 1],
   sentimentScore |-> <<-70, 20>>[((i + ver) % 2) + 1],
   impact |-> <<"high", "medium", "low">>[(i % 3) + 1]]

generateMockNews(ver) ==
  [i \in 1..MOCK_LENGTH |-> MockArticle(i - 1, ver)]

\* JSON.stringify drops the properties whose value is undefined; the text
\* is represented by the value a parser reads back from it
JSONArticle(a) ==
  [a EXCEPT !.image = IF a.image = "undefined" THEN "absent" ELSE a.image]

JSONstringify(articles) ==
  [json |-> [i \in 1..Len(articles) |-> JSONArticle(articles[i])]]

JSONparse(text) == text.json

\* ------------------------------------------------------------------------
\* Pagination (the tail of the handler)
\* ------------------------------------------------------------------------
startIndexOf(d) == (ToNumber(d.page) - 1) * ToNumber(d.limit)

endIndexOf(d) == JSAdd(JSNum(startIndexOf(d)), d.limit)

\* the body res.json sends: the slice and the pagination block
Paginate(articles, d) ==
  [articles |->
     JSONparse(JSONstringify(
       slice(articles, startIndexOf(d), ToNumber(endIndexOf(d))))),
   page |-> ToNumber(d.page),
   limit |-> ToNumber(d.limit),
   total |-> Len(articles),
   hasMore |-> JSLess(endIndexOf(d), Len(articles))]

\* ------------------------------------------------------------------------
\* State
\* ------------------------------------------------------------------------
VARIABLES
  now,          \* wall clock, in seconds since the first request could arrive
  budget,       \* how many more requests the clients send
  apiKeySet,    \* FINNHUB_API_KEY is configured (and not the placeholder)
  apiCache,     \* NodeCache: key -> [v: value, t: expiry time]
  news_cache,   \* rows of the news_cache table
  nextRowId,    \* AUTOINCREMENT counter of news_cache
  nextCleanup,  \* when the setInterval purge sweep fires next
  lastStore,    \* history: key -> the payload and time of the latest store,
                \* and of the latest store whose persistent write succeeded
  reqs,         \* the /api/news requests received so far, in arrival order
  users,        \* rows of the users table
  nextUserId,   \* AUTOINCREMENT counter of users
  authHits,     \* authLimiter: requests of the client counted in the window
  authBudget,   \* how many more /api/auth requests the client sends
  auth,         \* the /api/auth requests received so far, in arrival order
  probe,        \* one call of an annotation function: arguments and result
  cacheTtl,     \* CACHE_TTL_SECONDS of the process environment
  generalHits,  \* generalLimiter: requests of the client counted in the window
  apiHits,      \* apiLimiter: requests of the client counted in the window
  saved_searches,       \* rows of the saved_searches table
  bookmarked_articles,  \* rows of the bookmarked_articles table
  nextSearchId,         \* AUTOINCREMENT counter of saved_searches
  nextBookmarkId,       \* AUTOINCREMENT counter of bookmarked_articles
  userBudget,   \* how many more requests to authenticated routes are sent
  ureq,         \* the latest request to an authenticated route
  frontend      \* the page in the browser: public/app.js

authVars == <<users, nextUserId, authHits, authBudget, auth>>

limiterVars == <<generalHits, apiHits>>

userVars ==
  <<saved_searches, bookmarked_articles, nextSearchId, nextBookmarkId,
    userBudget, ureq>>

otherVars == <<cacheTtl, userVars, frontend>>

newsVars ==
  <<now, budget, apiKeySet, apiCache, news_cache, nextRowId, nextCleanup,
    lastStore, reqs>>

vars ==
  <<now, budget, apiKeySet, apiCache, news_cache, nextRowId, nextCleanup,
    lastStore, reqs, authVars, probe, limiterVars, otherVars>>

\* const CACHE_TTL = parseInt(process.env.CACHE_TTL_SECONDS) || 300
CACHE_TTL == cacheTtl

S_aapl == <<"a", "a", "p", "l">>
S_AAPL == <<"A", "A", "P", "L">>

Params(q, c, pg, lim) == [query |-> q, category |-> c, page |-> pg, limit |-> lim]

\* the query strings the clients of the model send
RequestInputs ==
  { Params(JSUndefined, JSUndefined, JSUndefined, JSUndefined),
    Params(JSStr(S_aapl), JSUndefined, JSStr(<<"2">>), JSStr(<<"2">>)),
    Params(JSStr(S_aapl), JSUndefined, JSUndefined, JSStr(<<"5", "1">>)),
    Params(JSStr(S_aapl), JSUndefined, JSStr(<<"0">>), JSUndefined) }

\* lengths of the article lists the provider answers with
ProviderLengths == {0, 5}

EmptyMap == [k \in {} |-> 0]

NoBody ==
  [articles |-> <<>>, page |-> 0, limit |-> 0, total |-> 0, hasMore |-> FALSE]

\* no annotation function is being called
NoProbe == [fn |-> "none"]

\* no token: the token field of a response that carries none
NoToken == [userId |-> 0, username |-> <<>>, email |-> <<>>, exp |-> 0, key |-> ""]

\* the bearer part of the Authorization header did not verify: no claims
NoClaims == [userId |-> 0, username |-> <<>>, email |-> <<>>, exp |-> 0]

\* the Authorization header: absent, or its first seven characters and the
\* rest (authHeader.substring(7))
NoAuthorization == [present |-> FALSE, prefix |-> "", token |-> NoToken]

\* a request to an authenticated route: the route, the Authorization
\* header, and the route's parameter (req.params.id, req.body)
UserRequest(route, header, arg) == [route |-> route, header |-> header, arg |-> arg]

\* no body, no parameter
NoArg == [text |-> <<>>, title |-> <<>>]

\* the record kept for the latest request to an authenticated route: its
\* number, the request, the response status, req.user, the rows or the id
\* of the response, and whether the route handler ran
NoUserRequest ==
  [n |-> 0, q |-> UserRequest("none", NoAuthorization, NoArg), status |-> 0,
   user |-> NoClaims, rows |-> {}, id |-> 0, ran |-> FALSE]

\* the tables of saved searches and bookmarks are empty and the clients
\* have n requests to authenticated routes to come
\* let allArticles = []: an article list is named by the search it answers
NoArticles == [query |-> <<>>, page |-> 0]

\* the pagination bar: hidden
NoPagination == [visible |-> FALSE, page |-> 0, hasMore |-> FALSE]

\* the page after its script ran: nothing typed, no search started
PageLoad ==
  frontend = [searchInput |-> <<>>, searchDebounceTimer |-> FALSE,
              currentQuery |-> <<>>, currentPage |-> 1,
              allArticles |-> NoArticles, loading |-> FALSE,
              results |-> "empty", shown |-> NoArticles,
              pagination |-> NoPagination, fetches |-> {}, started |-> 0]

UserInit(n) ==
  /\ saved_searches = {}
  /\ bookmarked_articles = {}
  /\ nextSearchId = 1
  /\ nextBookmarkId = 1
  /\ userBudget = n
  /\ ureq = NoUserRequest

\* The users table is empty and the client has sent n /api/auth requests
\* to come.
AuthInit(n) ==
  /\ users = {}
  /\ nextUserId = 1
  /\ authHits = 0
  /\ authBudget = n
  /\ auth = <<>>

\* The module has been loaded over an empty database and has served
\* nothing yet.  It was loaded CLEANUP_INTERVAL seconds before the clock of
\* the model starts, so the first purge sweep is due.
LimitersInit(g) ==
  /\ generalHits = g
  /\ apiHits = 0

NewsInitTTL(n, ttl) ==
  /\ cacheTtl = ttl
  /\ now = 0
  /\ budget = n
  /\ apiKeySet \in BOOLEAN
  /\ apiCache = EmptyMap
  /\ news_cache = {}
  /\ nextRowId = 1
  /\ nextCleanup = 0
  /\ lastStore = EmptyMap
  /\ reqs = <<>>

NewsInit(n) == NewsInitTTL(n, DefaultTTL) /\ LimitersInit(0)

InitWith(n) == NewsInit(n) /\ AuthInit(0) /\ UserInit(0) /\ PageLoad /\ probe = NoProbe

Init == InitWith(MaxRequests)

\* ------------------------------------------------------------------------
\* Cache tier
\* ------------------------------------------------------------------------
\* a lookup that passes over the in-process store
MemLive_Never(k) == FALSE

\* a lookup that treats an empty article list like a missing entry
MemLive_NonEmpty(k) ==
  k \in DOMAIN apiCache /\ ~(apiCache[k].t < now) /\ apiCache[k].v # <<>>

\* node-cache _check: an entry is expired once its t is before Date.now()
MemLive(k) == k \in DOMAIN apiCache /\ ~(apiCache[k].t < now)

\* apiCache.get deletes the expired entry it finds (deleteOnExpire)
apiCacheAfterGet(k) ==
  IF k \in DOMAIN apiCache /\ ~MemLive(k)
    THEN [x \in DOMAIN apiCache \ {k} |-> apiCache[x]]
    ELSE apiCache

\* a set that keeps the entry already held under the key
apiCacheSet_IfAbsent(cache, k, v) ==
  IF k \in DOMAIN cache THEN cache
  ELSE (k :> [v |-> v, t |-> now + CACHE_TTL]) @@ cache

\* apiCache.set(key, value): expiry stdTTL = CACHE_TTL from now
apiCacheSet(cache, k, v) == (k :> [v |-> v, t |-> now + CACHE_TTL]) @@ cache

\* a sweep that empties the table
CacheCleanup_Every(rows) == {}

\* the lookup query without its expires_at condition
CacheGetRows_AnyAge(k) == {r \in news_cache : r.query = k}

\* cacheQueries.get: WHERE query = ? AND expires_at > datetime('now')
CacheGetRows(k) == {r \in news_cache : r.query = k /\ r.expires_at > now}

\* ORDER BY cached_at DESC LIMIT 1: any row with the greatest cached_at
\* (rows stored within the same second tie, and SQL leaves their order open)
CacheGetNewest(k) ==
  {r \in CacheGetRows(k) : \A o \in CacheGetRows(k) : o.cached_at <= r.cached_at}

\* cacheQueries.set: INSERT ... datetime('now', '+' || ttl || ' seconds')
CacheSetRow(k, articles) ==
  [id |-> nextRowId,
   query |-> k,
   response_data |-> JSONstringify(articles),
   sentiment |-> IF Len(articles) > 0 THEN articles[1].sentiment ELSE "neutral",
   cached_at |-> now,
   expires_at |-> now + CACHE_TTL]

\* cacheQueries.cleanup: DELETE FROM news_cache WHERE expires_at < datetime('now')
CacheCleanup(rows) == {r \in rows : ~(r.expires_at < now)}

\* ------------------------------------------------------------------------
\* GET /api/news
\* ------------------------------------------------------------------------
\* The record kept for a request.  p, key, pc, status and body are the
\* request and its response; the other fields are history: which layer
\* served it and how long before that entry's expiry time, the full sequence
\* it paginated, what it touched, how the persistent write went, whether an
\* entry for its key was live in some layer when it arrived, whether some
\* layer held an entry for its key whose expiry had passed, whether the TTL
\* of the latest store for its key had not elapsed on arrival (fresh; freshDb
\* for the latest store that reached the table) and whether the sequence it
\* was served equals that store's payload up to JSON serialization; hit and
\* ghit are the counts apiLimiter and generalLimiter gave the request.
Request(p, key, pc, status, body, layer, ttlLeft, full, io, dbWrite) ==
  [p |-> p, key |-> key, pc |-> pc, status |-> status, body |-> body,
   layer |-> layer, ttlLeft |-> ttlLeft, full |-> full,
   io |-> io, dbWrite |-> dbWrite,
   live |-> key # <<>> /\ (MemLive(key) \/ CacheGetRows(key) # {}),
   stale |-> \/ (key \in DOMAIN apiCache /\ apiCache[key].t < now)
             \/ \E r \in news_cache : r.query = key /\ r.expires_at <= now,
   fresh |-> key \in DOMAIN lastStore /\ now < lastStore[key].at + CACHE_TTL,
   isStored |-> /\ key \in DOMAIN lastStore
                /\ JSONstringify(full) = JSONstringify(lastStore[key].v),
   freshDb |-> /\ key \in DOMAIN lastStore
               /\ lastStore[key].dbat >= 0
               /\ now < lastStore[key].dbat + CACHE_TTL,
   isStoredDb |-> /\ key \in DOMAIN lastStore
                  /\ JSONstringify(full) = JSONstringify(lastStore[key].dbv),
   hit |-> apiHits + 1,
   ghit |-> generalHits + 1]

\* the persist step with the in-process write inside the try block, after
\* the persistent write
Persist_MemInTry(key, articles, dbOk) ==
  /\ news_cache' = IF dbOk THEN news_cache \cup {CacheSetRow(key, articles)}
                   ELSE news_cache
  /\ nextRowId' = IF dbOk THEN nextRowId + 1 ELSE nextRowId
  /\ apiCache' = IF dbOk THEN apiCacheSet(apiCacheAfterGet(key), key, articles)
                 ELSE apiCacheAfterGet(key)
  /\ lastStore' =
       (key :> [v |-> articles, at |-> now,
                dbv |-> IF dbOk THEN articles
                        ELSE IF key \in DOMAIN lastStore THEN lastStore[key].dbv
                        ELSE <<>>,
                dbat |-> IF dbOk THEN now
                         ELSE IF key \in DOMAIN lastStore THEN lastStore[key].dbat
                         ELSE -1]) @@ lastStore

\* lines 333-346: the persistent write, whose failure is caught, then the
\* in-process write
Persist(key, articles, dbOk) ==
  /\ news_cache' = IF dbOk THEN news_cache \cup {CacheSetRow(key, articles)}
                   ELSE news_cache
  /\ nextRowId' = IF dbOk THEN nextRowId + 1 ELSE nextRowId
  /\ apiCache' = apiCacheSet(apiCacheAfterGet(key), key, articles)
  /\ lastStore' =
       (key :> [v |-> articles, at |-> now,
                dbv |-> IF dbOk THEN articles
                        ELSE IF key \in DOMAIN lastStore THEN lastStore[key].dbv
                        ELSE <<>>,
                dbat |-> IF dbOk THEN now
                         ELSE IF key \in DOMAIN lastStore THEN lastStore[key].dbat
                         ELSE -1]) @@ lastStore

\* a limiter that admits every request
PassNewsLimiters_Unlimited ==
  /\ budget > 0
  /\ budget' = budget - 1
  /\ generalHits' = generalHits + 1
  /\ apiHits' = apiHits + 1

\* app.use('/api/', generalLimiter), then apiLimiter as the first handler
\* of the route: each counts the request and admits it while the count is
\* within its max
PassNewsLimiters ==
  /\ budget > 0
  /\ budget' = budget - 1
  /\ generalHits < GENERAL_MAX
  /\ generalHits' = generalHits + 1
  /\ apiHits < API_MAX
  /\ apiHits' = apiHits + 1

\* generalLimiter is over its max: 429 before apiLimiter sees the request
NewsLimitedGeneral(p) ==
  /\ budget > 0
  /\ budget' = budget - 1
  /\ generalHits >= GENERAL_MAX
  /\ generalHits' = generalHits + 1
  /\ reqs' = Append(reqs,
       [Request(p, <<>>, "done", 429, NoBody, "none", 0, <<>>, {}, "none")
          EXCEPT !.hit = 0])
  /\ UNCHANGED <<otherVars, apiHits, authVars, probe, now, apiKeySet, apiCache,
                 news_cache, nextRowId, nextCleanup, lastStore>>

\* apiLimiter is over its max: 429 'Too many API requests, please slow
\* down' before the validators and the handler
NewsLimited(p) ==
  /\ budget > 0
  /\ budget' = budget - 1
  /\ generalHits < GENERAL_MAX
  /\ generalHits' = generalHits + 1
  /\ apiHits >= API_MAX
  /\ apiHits' = apiHits + 1
  /\ reqs' = Append(reqs,
       Request(p, <<>>, "done", 429, NoBody, "none", 0, <<>>, {}, "none"))
  /\ UNCHANGED <<otherVars, authVars, probe, now, apiKeySet, apiCache,
                 news_cache, nextRowId, nextCleanup, lastStore>>

\* validation fails: 400 before the handler body runs
RequestInvalid(p) ==
  /\ PassNewsLimiters
  /\ ~validationOk(p)
  /\ reqs' = Append(reqs,
       Request(p, <<>>, "done", 400, NoBody, "none", 0, <<>>, {}, "none"))
  /\ UNCHANGED <<otherVars, authVars, probe, now, apiKeySet, apiCache, news_cache, nextRowId,
                 nextCleanup, lastStore>>

\* the in-process cache holds a live entry
RequestMemHit(p) ==
  LET d == Destructure(p)
      key == cacheKey(d)
  IN  /\ PassNewsLimiters
      /\ validationOk(p)
      /\ MemLive(key)
      /\ reqs' = Append(reqs,
           Request(p, key, "done", 200, Paginate(apiCache[key].v, d), "mem",
                   apiCache[key].t - now, apiCache[key].v, {"memRead"}, "none"))
      /\ UNCHANGED <<otherVars, authVars, probe, now, apiKeySet, apiCache, news_cache, nextRowId,
                     nextCleanup, lastStore>>

\* in-process miss, persistent hit: parse the row and backfill
RequestDbHit(p) ==
  LET d == Destructure(p)
      key == cacheKey(d)
  IN  /\ PassNewsLimiters
      /\ validationOk(p)
      /\ ~MemLive(key)
      /\ \E row \in CacheGetNewest(key) :
           LET articles == JSONparse(row.response_data)
           IN  /\ apiCache' = apiCacheSet(apiCacheAfterGet(key), key, articles)
               /\ reqs' = Append(reqs,
                    Request(p, key, "done", 200, Paginate(articles, d), "db",
                            row.expires_at - now, articles, {"memRead", "dbRead", "memWrite"},
                            "none"))
      /\ UNCHANGED <<otherVars, authVars, probe, now, apiKeySet, news_cache, nextRowId, nextCleanup,
                     lastStore>>

\* in-process miss and the persistent read throws: the handler's catch
\* answers 500
RequestDbError(p) ==
  LET d == Destructure(p)
      key == cacheKey(d)
  IN  /\ PassNewsLimiters
      /\ validationOk(p)
      /\ ~MemLive(key)
      /\ apiCache' = apiCacheAfterGet(key)
      /\ reqs' = Append(reqs,
           Request(p, key, "done", 500, NoBody, "none", 0, <<>>,
                   {"memRead", "dbRead"}, "none"))
      /\ UNCHANGED <<otherVars, authVars, probe, now, apiKeySet, news_cache, nextRowId, nextCleanup,
                     lastStore>>

\* miss in both layers, no provider credential: mock articles, persisted
\* and paginated in the same turn
RequestMock(p) ==
  LET d == Destructure(p)
      key == cacheKey(d)
  IN  /\ PassNewsLimiters
      /\ validationOk(p)
      /\ ~MemLive(key)
      /\ CacheGetRows(key) = {}
      /\ ~apiKeySet
      /\ \E dbOk \in BOOLEAN :
           LET articles == generateMockNews(Len(reqs) + 1)
           IN  /\ Persist(key, articles, dbOk)
               /\ reqs' = Append(reqs,
                    Request(p, key, "done", 200, Paginate(articles, d), "none",
                            0, articles,
                            {"memRead", "dbRead", "dbWrite", "memWrite"},
                            IF dbOk THEN "ok" ELSE "failed"))
      /\ UNCHANGED <<otherVars, authVars, probe, now, apiKeySet, nextCleanup>>

\* miss in both layers with a credential: the handler awaits the provider
RequestFetch(p) ==
  LET d == Destructure(p)
      key == cacheKey(d)
  IN  /\ PassNewsLimiters
      /\ validationOk(p)
      /\ ~MemLive(key)
      /\ CacheGetRows(key) = {}
      /\ apiKeySet
      /\ apiCache' = apiCacheAfterGet(key)
      /\ reqs' = Append(reqs,
           Request(p, key, "fetching", 0, NoBody, "none", 0, <<>>,
                   {"memRead", "dbRead", "provider"}, "none"))
      /\ UNCHANGED <<otherVars, authVars, probe, now, apiKeySet, news_cache, nextRowId, nextCleanup,
                     lastStore>>

\* the provider answers: transform, annotate, persist, paginate
ProviderRespond(j) ==
  /\ j \in 1..Len(reqs)
  /\ reqs[j].pc = "fetching"
  /\ \E n \in ProviderLengths, dbOk \in BOOLEAN :
       LET d == Destructure(reqs[j].p)
           articles == Annotate([i \in 1..n |-> RawArticle(i, j)])
       IN  /\ Persist(reqs[j].key, articles, dbOk)
           /\ reqs' = [reqs EXCEPT ![j] =
                [@ EXCEPT !.pc = "done", !.status = 200,
                          !.body = Paginate(articles, d),
                          !.full = articles,
                          !.io = @ \cup {"dbWrite", "memWrite"},
                          !.dbWrite = IF dbOk THEN "ok" ELSE "failed"]]
  /\ UNCHANGED <<otherVars, limiterVars, authVars, probe, now, budget, apiKeySet, nextCleanup>>

\* a failure path that falls back to an expired persistent row for the key
ProviderFail_ServeStale(j) ==
  /\ j \in 1..Len(reqs)
  /\ reqs[j].pc = "fetching"
  /\ IF \E r \in news_cache : r.query = reqs[j].key
       THEN \E r \in {x \in news_cache : x.query = reqs[j].key} :
              reqs' = [reqs EXCEPT ![j] =
                [@ EXCEPT !.pc = "done", !.status = 200,
                          !.body = Paginate(JSONparse(r.response_data),
                                            Destructure(reqs[j].p)),
                          !.full = JSONparse(r.response_data)]]
       ELSE reqs' = [reqs EXCEPT ![j] = [@ EXCEPT !.pc = "done", !.status = 500]]
  /\ UNCHANGED <<otherVars, limiterVars, authVars, probe, now, budget, apiKeySet, apiCache, news_cache, nextRowId,
                 nextCleanup, lastStore>>

\* the provider call throws (error or timeout): the catch answers 500
ProviderFail(j) ==
  /\ j \in 1..Len(reqs)
  /\ reqs[j].pc = "fetching"
  /\ reqs' = [reqs EXCEPT ![j] = [@ EXCEPT !.pc = "done", !.status = 500]]
  /\ UNCHANGED <<otherVars, limiterVars, authVars, probe, now, budget, apiKeySet, apiCache, news_cache, nextRowId,
                 nextCleanup, lastStore>>

\* ------------------------------------------------------------------------
\* Environment: time, the purge timer, process restart
\* ------------------------------------------------------------------------
Tick ==
  /\ now < MaxTime
  /\ now' = now + 1
  /\ UNCHANGED <<otherVars, limiterVars, authVars, probe, budget, apiKeySet, apiCache, news_cache, nextRowId,
                 nextCleanup, lastStore, reqs>>

\* the setInterval callback, run once the event loop gets to it:
\* cleanup.run(), or a throw that is logged
Cleanup ==
  /\ now >= nextCleanup
  /\ nextCleanup' = nextCleanup + CLEANUP_INTERVAL
  /\ \E ok \in BOOLEAN :
       news_cache' = IF ok THEN CacheCleanup(news_cache) ELSE news_cache
  /\ UNCHANGED <<otherVars, limiterVars, authVars, probe, now, budget,
                 apiKeySet, apiCache, nextRowId, lastStore, reqs>>

\* the process is restarted: the module is loaded again over the same
\* database file; requests in flight are lost with the old process, and
\* so are the counts of the limiters' memory stores (the specifications
\* that restart the process send no /api/auth request, so authLimiter's
\* count is 0 before and after)
Restart ==
  /\ apiCache' = EmptyMap
  /\ generalHits' = 0
  /\ apiHits' = 0
  /\ nextCleanup' = now + CLEANUP_INTERVAL
  /\ reqs' = [j \in 1..Len(reqs) |->
               IF reqs[j].pc = "fetching" THEN [reqs[j] EXCEPT !.pc = "lost"]
               ELSE reqs[j]]
  /\ UNCHANGED <<otherVars, authVars, probe, now, budget, apiKeySet, news_cache, nextRowId,
                 lastStore>>

Next ==
  \/ \E p \in RequestInputs : RequestInvalid(p)
  \/ \E p \in RequestInputs : RequestMemHit(p)
  \/ \E p \in RequestInputs : RequestDbHit(p)
  \/ \E p \in RequestInputs : RequestDbError(p)
  \/ \E p \in RequestInputs : RequestMock(p)
  \/ \E p \in RequestInputs : RequestFetch(p)
  \/ \E j \in 1..Len(reqs) : ProviderRespond(j)
  \/ \E j \in 1..Len(reqs) : ProviderFail(j)
  \/ Tick
  \/ Cleanup
  \/ Restart

Spec == Init /\ [][Next]_vars

\* ------------------------------------------------------------------------
\* Specifications with other clients
\* ------------------------------------------------------------------------
MaxRaceRequests == 3

\* three requests, enough for two concurrent misses and a later reader
InitRace == InitWith(MaxRaceRequests)

\* clients that all ask for the default listing, or send a bad page
RaceInputs ==
  { Params(JSUndefined, JSUndefined, JSUndefined, JSUndefined),
    Params(JSUndefined, JSUndefined, JSStr(<<"0">>), JSUndefined) }

NextRace ==
  \/ \E p \in RaceInputs : RequestInvalid(p)
  \/ \E p \in RaceInputs : RequestMemHit(p)
  \/ \E p \in RaceInputs : RequestDbHit(p)
  \/ \E p \in RaceInputs : RequestDbError(p)
  \/ \E p \in RaceInputs : RequestMock(p)
  \/ \E p \in RaceInputs : RequestFetch(p)
  \/ \E j \in 1..Len(reqs) : ProviderRespond(j)
  \/ \E j \in 1..Len(reqs) : ProviderFail(j)
  \/ Tick
  \/ Cleanup
  \/ Restart

SpecRace == InitRace /\ [][NextRace]_vars

\* clients that vary the search term and the category
ParamInputs ==
  { Params(JSUndefined, JSUndefined, JSUndefined, JSUndefined),
    Params(JSStr(S_forex), JSUndefined, JSUndefined, JSUndefined),
    Params(JSUndefined, JSStr(S_forex), JSUndefined, JSUndefined),
    Params(JSStr(S_aapl), JSUndefined, JSUndefined, JSUndefined),
    Params(JSStr(S_AAPL), JSUndefined, JSUndefined, JSUndefined),
    Params(JSStr(<<" ">> \o S_aapl), JSStr(S_crypto), JSStr(<<"1">>), JSUndefined),
    Params(JSStr(<<" ">>), JSUndefined, JSUndefined, JSUndefined),
    Params(JSUndefined, JSStr(S_Market), JSUndefined, JSUndefined) }

NextParams ==
  \/ \E p \in ParamInputs : RequestInvalid(p)
  \/ \E p \in ParamInputs : RequestMemHit(p)
  \/ \E p \in ParamInputs : RequestDbHit(p)
  \/ \E p \in ParamInputs : RequestDbError(p)
  \/ \E p \in ParamInputs : RequestMock(p)
  \/ \E p \in ParamInputs : RequestFetch(p)
  \/ \E j \in 1..Len(reqs) : ProviderRespond(j)
  \/ \E j \in 1..Len(reqs) : ProviderFail(j)
  \/ Tick
  \/ Cleanup
  \/ Restart

SpecParams == Init /\ [][NextParams]_vars

\* requests for the default listing that arrive within one second, with a
\* provider credential: misses overlap, later requests hit, and a restart
\* leaves the persistent layer to answer
InitOverlap == InitWith(MaxRequests) /\ apiKeySet

OverlapInputs == {Params(JSUndefined, JSUndefined, JSUndefined, JSUndefined)}

NextOverlap ==
  \/ \E p \in OverlapInputs : RequestMemHit(p)
  \/ \E p \in OverlapInputs : RequestDbHit(p)
  \/ \E p \in OverlapInputs : RequestFetch(p)
  \/ \E j \in 1..Len(reqs) : ProviderRespond(j)
  \/ \E j \in 1..Len(reqs) : ProviderFail(j)
  \/ Restart

SpecOverlap == InitOverlap /\ [][NextOverlap]_vars

\* requests for the default listing over the lifetime of an entry, with a
\* provider credential: the in-process layer answers, or after a restart
\* the persistent layer, until the entry expires
InitTiers == InitWith(MaxRaceRequests) /\ apiKeySet

NextTiers ==
  \/ \E p \in OverlapInputs : RequestMemHit(p)
  \/ \E p \in OverlapInputs : RequestDbHit(p)
  \/ \E p \in OverlapInputs : RequestFetch(p)
  \/ \E j \in 1..Len(reqs) : ProviderRespond(j)
  \/ Tick
  \/ Restart

SpecTiers == InitTiers /\ [][NextTiers]_vars

\* a process that runs until the purge timer has fired several times, and
\* is never restarted
MaxSweeps == 2

\* nothing arrives until the purge timer is due
Idle ==
  /\ now < nextCleanup
  /\ nextCleanup < MaxSweeps * CLEANUP_INTERVAL
  /\ now' = nextCleanup
  /\ UNCHANGED <<otherVars, limiterVars, authVars, probe, budget, apiKeySet,
                 apiCache, news_cache, nextRowId, nextCleanup, lastStore, reqs>>

NextSweep ==
  \/ \E p \in OverlapInputs : RequestMemHit(p)
  \/ \E p \in OverlapInputs : RequestMock(p)
  \/ \E p \in OverlapInputs : RequestFetch(p)
  \/ \E j \in 1..Len(reqs) : ProviderRespond(j)
  \/ Tick
  \/ Idle
  \/ Cleanup

SpecSweep == Init /\ [][NextSweep]_vars

\* a client that sends a burst of requests for the default listing, more
\* than apiLimiter admits in a window.  It has sent other requests under
\* /api/ in the 15-minute window of generalLimiter before, as many as make
\* the last request of the burst the first one over GENERAL_MAX.  No
\* provider credential is configured.
MaxBurst == 34
MaxWindows == 1

InitLimiter ==
  /\ NewsInitTTL(MaxBurst, DefaultTTL)
  /\ LimitersInit(GENERAL_MAX + 1 - MaxBurst)
  /\ ~apiKeySet
  /\ AuthInit(0)
  /\ UserInit(0) /\ PageLoad
  /\ probe = NoProbe

\* API_WINDOW seconds pass in which the client sends nothing: the window of
\* apiLimiter ends and its count is cleared; the window of generalLimiter
\* stays open
WindowPasses ==
  /\ now < MaxWindows * API_WINDOW
  /\ now + API_WINDOW < GENERAL_WINDOW
  /\ now' = now + API_WINDOW
  /\ apiHits' = 0
  /\ UNCHANGED <<otherVars, generalHits, authVars, probe, budget, apiKeySet,
                 apiCache, news_cache, nextRowId, nextCleanup, lastStore, reqs>>

NextLimiter ==
  \/ \E p \in OverlapInputs : RequestMemHit(p)
  \/ \E p \in OverlapInputs : RequestMock(p)
  \/ \E p \in OverlapInputs : NewsLimited(p)
  \/ \E p \in OverlapInputs : NewsLimitedGeneral(p)
  \/ WindowPasses

SpecLimiter == InitLimiter /\ [][NextLimiter]_vars

\* one request and a clock that runs past ten seconds.  axios.get is called
\* with headers and params only: no timeout option, and axios's default is
\* none, so the only steps that end the await are the provider's answer and
\* a transport error.  Time is the one thing that is certain to advance;
\* nothing obliges the provider to answer.
MaxWait == 11

InitLive == InitWith(1) /\ apiKeySet

Wait ==
  /\ now < MaxWait
  /\ now' = now + 1
  /\ UNCHANGED <<otherVars, limiterVars, authVars, probe, budget, apiKeySet, apiCache, news_cache, nextRowId,
                 nextCleanup, lastStore, reqs>>

NextLive ==
  \/ \E p \in RequestInputs : RequestInvalid(p)
  \/ \E p \in RequestInputs : RequestFetch(p)
  \/ \E j \in 1..Len(reqs) : ProviderRespond(j)
  \/ \E j \in 1..Len(reqs) : ProviderFail(j)
  \/ Wait

SpecLive == InitLive /\ [][NextLive]_vars /\ WF_vars(Wait)

\* a client that pages through the results of one search, two articles a
\* page, as the frontend's next and previous buttons do
InitPages == InitWith(MaxRequests) /\ apiKeySet

PageInputs ==
  { Params(JSStr(S_aapl), JSUndefined, JSStr(<<"1">>), JSStr(<<"2">>)),
    Params(JSStr(S_aapl), JSUndefined, JSStr(<<"2">>), JSStr(<<"2">>)) }

NextPages ==
  \/ \E p \in PageInputs : RequestMemHit(p)
  \/ \E p \in PageInputs : RequestFetch(p)
  \/ \E j \in 1..Len(reqs) : ProviderRespond(j)
  \/ Tick

SpecPages == InitPages /\ [][NextPages]_vars

\* a process configured with a TTL of LongTTL seconds that is restarted
\* while an entry is live, and a clock that runs past the entry's lifetime
InitAge ==
  /\ NewsInitTTL(MaxRaceRequests, LongTTL)
  /\ LimitersInit(0)
  /\ apiKeySet
  /\ AuthInit(0)
  /\ UserInit(0) /\ PageLoad
  /\ probe = NoProbe

NextAge ==
  \/ \E p \in OverlapInputs : RequestMemHit(p)
  \/ \E p \in OverlapInputs : RequestDbHit(p)
  \/ \E p \in OverlapInputs : RequestFetch(p)
  \/ \E j \in 1..Len(reqs) : ProviderRespond(j)
  \/ now < 2 * LongTTL /\ Wait
  \/ Restart

SpecAge == InitAge /\ [][NextAge]_vars

\* ------------------------------------------------------------------------
\* The annotation functions, called on their own
\* ------------------------------------------------------------------------
MaxWords == 3
MaxAgeHours == 13

JSNull == [type |-> "null", num |-> 0, str |-> <<>>]

\* String.prototype.toLowerCase on the letters the model uses
LowerChar(c) ==
  CASE c = "A" -> "a" [] c = "G" -> "g" [] c = "O" -> "o" [] c = "D" -> "d"
    [] c = "N" -> "n" [] OTHER -> c

toLowerCase(s) == [i \in 1..Len(s) |-> LowerChar(s[i])]

\* the punctuation the tokenizer of the sentiment package blanks out
IsPunctuation(c) == c \in {".", ",", "!", "?", "%", ";", ":"}

BlankPunctuation(s) ==
  [i \in 1..Len(s) |-> IF IsPunctuation(s[i]) THEN " " ELSE s[i]]

\* .replace(/\s\s+/g, ' '): runs of blanks become one blank
RECURSIVE CollapseBlanks(_)
CollapseBlanks(s) ==
  IF Len(s) < 2 THEN s
  ELSE IF s[1] = " " /\ s[2] = " " THEN CollapseBlanks(Tail(s))
  ELSE <<s[1]>> \o CollapseBlanks(Tail(s))

\* String.prototype.split(' '): '' splits into the one token ''
RECURSIVE SplitOnBlank(_, _)
SplitOnBlank(s, word) ==
  IF s = <<>> THEN <<word>>
  ELSE IF Head(s) = " " THEN <<word>> \o SplitOnBlank(Tail(s), <<>>)
  ELSE SplitOnBlank(Tail(s), Append(word, Head(s)))

\* tokenize of the sentiment package: lower-case, blank the punctuation,
\* collapse the blanks, trim, split
tokenize(s) ==
  SplitOnBlank(trim(CollapseBlanks(BlankPunctuation(toLowerCase(s)))), <<>>)

W_good == <<"g", "o", "o", "d">>
W_bad == <<"b", "a", "d">>
W_yes == <<"y", "e", "s">>
W_cut == <<"c", "u", "t">>
W_the == <<"t", "h", "e">>

\* the AFINN weights of the words the model uses; any other token weighs 0
AFINN(token) ==
  CASE token = W_good -> 3 [] token = W_bad -> -3
    [] token = W_yes -> 1 [] token = W_cut -> -1
    [] OTHER -> 0

RECURSIVE SumWeights(_)
SumWeights(tokens) ==
  IF tokens = <<>> THEN 0 ELSE AFINN(Head(tokens)) + SumWeights(Tail(tokens))

\* a quotient num / den with den > 0, kept exact
Quotient(num, den) == [num |-> num, den |-> den]

\* q > a / b and q < a / b, for b > 0
QuotientGreater(q, a, b) == q.num * b > a * q.den

QuotientLess(q, a, b) == q.num * b < a * q.den

\* a labelling whose thresholds include 0.5 and -0.5
LabelOf_Inclusive(comparative) ==
  IF ~QuotientLess(comparative, 1, 2) THEN "positive"
  ELSE IF ~QuotientGreater(comparative, -1, 2) THEN "negative"
  ELSE "neutral"

\* lines 105-110 of sentiment.js
LabelOf(comparative) ==
  IF QuotientGreater(comparative, 1, 2) THEN "positive"
  ELSE IF QuotientLess(comparative, -1, 2) THEN "negative"
  ELSE "neutral"

\* the outcome of a call that throws
Raised == [raised |-> TRUE, score |-> 0, comparative |-> Quotient(0, 1),
           label |-> "none"]

\* sentiment.analyze(text): tokenize calls text.toLowerCase(), a TypeError
\* when text is null or undefined; comparative is score / tokens.length
SentimentAnalyze(text) ==
  IF text.type # "string" THEN Raised
  ELSE LET tokens == tokenize(text.str)
       IN  [raised |-> FALSE,
            score |-> SumWeights(tokens),
            comparative |-> Quotient(SumWeights(tokens), Len(tokens)),
            label |-> LabelOf(Quotient(SumWeights(tokens), Len(tokens)))]

\* analyzeSentiment: the early return on a falsy text, else the package
analyzeSentiment(text) ==
  IF ~Truthy(text)
    THEN [raised |-> FALSE, score |-> 0, comparative |-> Quotient(0, 1),
          label |-> "neutral"]
    ELSE SentimentAnalyze(text)

Vocabulary == {W_good, W_bad, W_yes, W_cut, W_the}

RECURSIVE JoinWords(_)
JoinWords(words) ==
  IF Len(words) = 1 THEN words[1]
  ELSE words[1] \o <<" ">> \o JoinWords(Tail(words))

\* the texts analyzeSentiment is called with: absent ones, the empty and
\* the blank string, every phrase of up to MaxWords words, and phrases with
\* capitals, punctuation and doubled blanks
TextInputs ==
  {JSUndefined, JSNull, JSStr(<<>>), JSStr(<<" ">>),
   JSStr(<<"G", "O", "O", "D", "!">>),
   JSStr(W_bad \o <<" ", " ">> \o W_the \o <<".">>)}
  \cup {JSStr(JoinWords(w)) :
          w \in UNION {[1..n -> Vocabulary] : n \in 1..MaxWords}}

\* the sentimentScore values calculateImpact is called with, in hundredths
ScoreInputs == {-90, -31, -30, -11, -10, -5, 0, 5, 10, 11, 30, 31, 40, 90}

InitAnnotators ==
  /\ NewsInit(0)
  /\ AuthInit(0)
  /\ UserInit(0) /\ PageLoad
  /\ \/ \E t \in TextInputs :
          probe = [fn |-> "analyzeSentiment", pc |-> "call", text |-> t]
     \/ \E h \in 0..MaxAgeHours, sc \in ScoreInputs :
          probe = [fn |-> "calculateImpact", pc |-> "call",
                   ageHours |-> h, sentimentScore |-> sc]

AnalyzeSentimentCall ==
  /\ probe.fn = "analyzeSentiment"
  /\ probe.pc = "call"
  /\ probe' = [fn |-> "analyzeSentiment", pc |-> "returned",
               text |-> probe.text, out |-> analyzeSentiment(probe.text)]
  /\ UNCHANGED <<otherVars, limiterVars, now, budget, apiKeySet, apiCache, news_cache, nextRowId,
                 nextCleanup, lastStore, reqs, authVars>>

CalculateImpactCall ==
  /\ probe.fn = "calculateImpact"
  /\ probe.pc = "call"
  /\ probe' = [fn |-> "calculateImpact", pc |-> "returned",
               ageHours |-> probe.ageHours,
               sentimentScore |-> probe.sentimentScore,
               out |-> calculateImpact(probe.ageHours, probe.sentimentScore)]
  /\ UNCHANGED <<otherVars, limiterVars, now, budget, apiKeySet, apiCache, news_cache, nextRowId,
                 nextCleanup, lastStore, reqs, authVars>>

NextAnnotators ==
  \/ AnalyzeSentimentCall
  \/ CalculateImpactCall

SpecAnnotators == InitAnnotators /\ [][NextAnnotators]_vars

\* ------------------------------------------------------------------------
\* Accounts: POST /api/auth/register and POST /api/auth/login
\* ------------------------------------------------------------------------
\* authLimiter: max requests of one client per 15-minute window, counted
\* over every route under /api/auth/.  The window is longer than any run of
\* the model, so the counter is never reset.  generalLimiter counts the
\* request first.
AUTH_MAX == 5

MaxAuthRequests == 3
MaxUsers == 3

LowerLetters ==
  {"a", "b", "c", "d", "e", "f", "g", "h", "i", "j", "k", "l", "m", "n", "o",
   "p", "q", "r", "s", "t", "u", "v", "w", "x", "y", "z"}

UpperLetters == {"A", "D", "G", "N", "O", "T"}

\* /^[a-zA-Z0-9_]+$/
IsUsernameChar(c) ==
  c \in LowerLetters \/ c \in UpperLetters \/ IsDigit(c) \/ c = "_"

\* body('username').trim().isLength({ min: 3, max: 30 }).matches(...)
ValidUsername(u) ==
  /\ Len(trim(u)) >= 3
  /\ Len(trim(u)) <= 30
  /\ \A i \in 1..Len(trim(u)) : IsUsernameChar(trim(u)[i])

\* the positions of a character in a string
IndexesOf(s, c) == {i \in 1..Len(s) : s[i] = c}

\* validator isEmail, on addresses of letters, digits, dots and @: one @,
\* a local part, a domain of non-empty labels whose last has two letters
\* or more
isEmail(s) ==
  /\ Cardinality(IndexesOf(s, "@")) = 1
  /\ LET at == CHOOSE i \in IndexesOf(s, "@") : TRUE
         dots == {i \in IndexesOf(s, ".") : i > at}
     IN  /\ at > 1
         /\ \A i \in 1..Len(s) :
              i # at => (s[i] \in LowerLetters \/ s[i] \in UpperLetters
                           \/ IsDigit(s[i]) \/ s[i] = ".")
         /\ s[1] # "." /\ s[at - 1] # "."
         /\ dots # {}
         /\ \A i \in dots : i > at + 1 /\ i < Len(s) - 1 /\ s[i + 1] # "."
         /\ \A i \in (Len(s) - 1)..Len(s) :
              s[i] \in LowerLetters \/ s[i] \in UpperLetters

\* validator normalizeEmail, off the mail providers it special-cases: the
\* whole address in lower case
normalizeEmail(s) == toLowerCase(s)

\* body('password').isLength({ min: 6 })
ValidPassword(pw) == Len(pw) >= 6

\* an /api/auth request as the client sends it
AuthRequest(kind, username, email, password) ==
  [kind |-> kind, username |-> username, email |-> email, password |-> password]

\* validationResult(req).isEmpty() of the register route
RegisterValid(r) ==
  /\ ValidUsername(r.username)
  /\ isEmail(trim(r.email))
  /\ ValidPassword(r.password)

\* validationResult(req).isEmpty() of the login route: isEmail, notEmpty
LoginValid(r) == isEmail(trim(r.email)) /\ r.password # <<>>

\* req.body after the sanitizers ran
BodyOf(r) ==
  [username |-> trim(r.username),
   email |-> normalizeEmail(trim(r.email)),
   password |-> r.password]

\* bcrypt.hash and bcrypt.compare: a hash verifies the password it was made
\* from and no other
hashPassword(password) == [bcrypt |-> password]

verifyPassword(password, hash) == hash = hashPassword(password)

\* jwt.sign({ userId, username, email }, JWT_SECRET, { expiresIn }): the
\* claims, the expiry, and the secret the signature was made with
generateToken(userId, username, email) ==
  [userId |-> userId, username |-> username, email |-> email,
   exp |-> now + JWT_EXPIRES_IN, key |-> JWT_SECRET]

\* userQueries.findByEmail / findByUsername
findByEmail(email) == {u \in users : u.email = email}

findByUsername(username) == {u \in users : u.username = username}

\* the record kept for an /api/auth request
AuthRecord(r, pc, status, userId, token) ==
  [r |-> r, pc |-> pc, status |-> status, userId |-> userId, token |-> token]

\* the request passes authLimiter, which counts it
PassLimiter ==
  /\ authBudget > 0
  /\ authBudget' = authBudget - 1
  /\ generalHits < GENERAL_MAX
  /\ generalHits' = generalHits + 1
  /\ authHits < AUTH_MAX
  /\ authHits' = authHits + 1

\* the request is over the limit: 429 before the route runs
AuthLimited(r) ==
  /\ authBudget > 0
  /\ authBudget' = authBudget - 1
  /\ generalHits < GENERAL_MAX
  /\ generalHits' = generalHits + 1
  /\ authHits >= AUTH_MAX
  /\ authHits' = authHits + 1
  /\ auth' = Append(auth, AuthRecord(r, "done", 429, 0, NoToken))
  /\ UNCHANGED <<otherVars, apiHits, users, nextUserId, probe, now, budget, apiKeySet, apiCache,
                 news_cache, nextRowId, nextCleanup, lastStore, reqs>>

\* register: validation fails
RegisterInvalid(r) ==
  /\ r.kind = "register"
  /\ PassLimiter
  /\ ~RegisterValid(r)
  /\ auth' = Append(auth, AuthRecord(r, "done", 400, 0, NoToken))
  /\ UNCHANGED <<otherVars, apiHits, users, nextUserId, probe, now, budget, apiKeySet, apiCache,
                 news_cache, nextRowId, nextCleanup, lastStore, reqs>>

\* register: the email or the username is found
RegisterConflict(r) ==
  /\ r.kind = "register"
  /\ PassLimiter
  /\ RegisterValid(r)
  /\ findByEmail(BodyOf(r).email) # {} \/ findByUsername(BodyOf(r).username) # {}
  /\ auth' = Append(auth, AuthRecord(r, "done", 409, 0, NoToken))
  /\ UNCHANGED <<otherVars, apiHits, users, nextUserId, probe, now, budget, apiKeySet, apiCache,
                 news_cache, nextRowId, nextCleanup, lastStore, reqs>>

\* register: neither is found; the handler awaits hashPassword
RegisterHash(r) ==
  /\ r.kind = "register"
  /\ PassLimiter
  /\ RegisterValid(r)
  /\ findByEmail(BodyOf(r).email) = {}
  /\ findByUsername(BodyOf(r).username) = {}
  /\ auth' = Append(auth, AuthRecord(r, "hashing", 0, 0, NoToken))
  /\ UNCHANGED <<otherVars, apiHits, users, nextUserId, probe, now, budget, apiKeySet, apiCache,
                 news_cache, nextRowId, nextCleanup, lastStore, reqs>>

\* register, after the hash: userQueries.create.run inserts the row
RegisterCreate(j) ==
  /\ j \in 1..Len(auth)
  /\ auth[j].pc = "hashing"
  /\ LET b == BodyOf(auth[j].r)
     IN  /\ findByEmail(b.email) = {}
         /\ findByUsername(b.username) = {}
         /\ users' = users \cup
              {[id |-> nextUserId, username |-> b.username, email |-> b.email,
                password_hash |-> hashPassword(b.password)]}
         /\ nextUserId' = nextUserId + 1
         /\ auth' = [auth EXCEPT ![j] =
              AuthRecord(auth[j].r, "done", 201, nextUserId,
                         generateToken(nextUserId, b.username, b.email))]
  /\ UNCHANGED <<otherVars, limiterVars, authHits, authBudget, probe, now, budget, apiKeySet, apiCache,
                 news_cache, nextRowId, nextCleanup, lastStore, reqs>>

\* register, after the hash: the INSERT violates a UNIQUE constraint and
\* throws; the catch answers 500
RegisterCreateFails(j) ==
  /\ j \in 1..Len(auth)
  /\ auth[j].pc = "hashing"
  /\ LET b == BodyOf(auth[j].r)
     IN  findByEmail(b.email) # {} \/ findByUsername(b.username) # {}
  /\ auth' = [auth EXCEPT ![j] = AuthRecord(auth[j].r, "done", 500, 0, NoToken)]
  /\ UNCHANGED <<otherVars, limiterVars, users, nextUserId, authHits, authBudget, probe, now, budget,
                 apiKeySet, apiCache, news_cache, nextRowId, nextCleanup,
                 lastStore, reqs>>

\* login: validation fails
LoginInvalid(r) ==
  /\ r.kind = "login"
  /\ PassLimiter
  /\ ~LoginValid(r)
  /\ auth' = Append(auth, AuthRecord(r, "done", 400, 0, NoToken))
  /\ UNCHANGED <<otherVars, apiHits, users, nextUserId, probe, now, budget, apiKeySet, apiCache,
                 news_cache, nextRowId, nextCleanup, lastStore, reqs>>

\* login: no user has the email, or the password does not verify.  (The
\* handler awaits bcrypt.compare on the row it has read; no statement
\* changes a row, so the await is folded into the step.)
LoginRejected(r) ==
  /\ r.kind = "login"
  /\ PassLimiter
  /\ LoginValid(r)
  /\ \A u \in findByEmail(BodyOf(r).email) :
       ~verifyPassword(r.password, u.password_hash)
  /\ auth' = Append(auth, AuthRecord(r, "done", 401, 0, NoToken))
  /\ UNCHANGED <<otherVars, apiHits, users, nextUserId, probe, now, budget, apiKeySet, apiCache,
                 news_cache, nextRowId, nextCleanup, lastStore, reqs>>

\* login: the user is found and the password verifies
LoginOk(r) ==
  /\ r.kind = "login"
  /\ PassLimiter
  /\ LoginValid(r)
  /\ \E u \in findByEmail(BodyOf(r).email) :
       /\ verifyPassword(r.password, u.password_hash)
       /\ auth' = Append(auth,
            AuthRecord(r, "done", 200, u.id,
                       generateToken(u.id, u.username, u.email)))
  /\ UNCHANGED <<otherVars, apiHits, users, nextUserId, probe, now, budget, apiKeySet, apiCache,
                 news_cache, nextRowId, nextCleanup, lastStore, reqs>>

S_ann == <<"a", "n", "n">>
S_bob == <<"b", "o", "b">>
E_ann == <<"a", "n", "n", "@", "x", ".", "i", "o">>
E_ANN == <<"A", "N", "N", "@", "x", ".", "i", "o">>
E_bob == <<"b", "o", "b", "@", "x", ".", "i", "o">>
P_secret == <<"s", "e", "c", "r", "e", "t">>
P_other == <<"s", "e", "c", "r", "e", "T">>
P_short == <<"1", "2", "3">>

\* a client that registers ann, a second account under ann's username, a
\* third under ann's email in capitals, tries a short password, and logs in
\* with the right password, a wrong one and a malformed email
AuthInputs ==
  { AuthRequest("register", S_ann, E_ann, P_secret),
    AuthRequest("register", S_ann, E_bob, P_secret),
    AuthRequest("register", S_bob, E_ANN, P_secret),
    AuthRequest("register", S_ann, E_ann, P_short),
    AuthRequest("login", <<>>, E_ann, P_secret),
    AuthRequest("login", <<>>, E_ann, P_other),
    AuthRequest("login", <<>>, S_ann, P_secret) }

InitAuth ==
  NewsInit(0) /\ AuthInit(MaxAuthRequests) /\ UserInit(0) /\ PageLoad /\ probe = NoProbe

\* MaxAuthRequests is below AUTH_MAX: the limiter never refuses here
NextAuth ==
  \/ \E r \in AuthInputs : RegisterInvalid(r)
  \/ \E r \in AuthInputs : RegisterConflict(r)
  \/ \E r \in AuthInputs : RegisterHash(r)
  \/ \E j \in 1..Len(auth) : RegisterCreate(j)
  \/ \E j \in 1..Len(auth) : RegisterCreateFails(j)
  \/ \E r \in AuthInputs : LoginInvalid(r)
  \/ \E r \in AuthInputs : LoginRejected(r)
  \/ \E r \in AuthInputs : LoginOk(r)

SpecAuth == InitAuth /\ [][NextAuth]_vars

\* user i of a batch: usr1, u1@x.io, ...
BatchRegister(i) ==
  AuthRequest("register", <<"u", "s", "r", Digits[i + 1]>>,
              <<"u", Digits[i + 1], "@", "x", ".", "i", "o">>, P_secret)

BatchLogin(i) ==
  AuthRequest("login", <<>>, <<"u", Digits[i + 1], "@", "x", ".", "i", "o">>,
              P_secret)

Sent(r) == \E j \in 1..Len(auth) : auth[j].r = r

\* the registrations of the batch the client has not sent yet
UnsentRegistrations ==
  {r \in {BatchRegister(i) : i \in 1..MaxUsers} : ~Sent(r)}

\* Promise.all(registrations) has settled: every registration was answered
BatchRegistered ==
  /\ UnsentRegistrations = {}
  /\ \A j \in 1..Len(auth) : auth[j].pc = "done"

\* the logins the client sends once the registrations have been answered
UnsentLogins ==
  IF BatchRegistered
    THEN {r \in {BatchLogin(i) : i \in 1..MaxUsers} : ~Sent(r)}
    ELSE {}

InitBatch ==
  NewsInit(0) /\ AuthInit(2 * MaxUsers) /\ UserInit(0) /\ PageLoad /\ probe = NoProbe

\* one client registers MaxUsers distinct users together, then logs each in
NextBatch ==
  \/ \E r \in UnsentRegistrations : RegisterHash(r)
  \/ \E j \in 1..Len(auth) : RegisterCreate(j)
  \/ \E r \in UnsentLogins : LoginOk(r)
  \/ \E r \in UnsentRegistrations \cup UnsentLogins : AuthLimited(r)

SpecBatch == InitBatch /\ [][NextBatch]_vars

\* ------------------------------------------------------------------------
\* Authenticated routes: GET /api/auth/me, /api/user/searches and
\* /api/user/bookmarks
\* ------------------------------------------------------------------------
MaxUserRequests == 3

\* the payload jwt.verify returns
Claims(token) ==
  [userId |-> token.userId, username |-> token.username,
   email |-> token.email, exp |-> token.exp]

\* jwt.verify(token, JWT_SECRET) does not throw: the signature was made
\* with JWT_SECRET and the expiry lies ahead
TokenVerifies(token) == token.key = JWT_SECRET /\ now < token.exp

\* verifyToken: the claims, or null when jwt.verify throws
verifyToken(token) == IF TokenVerifies(token) THEN Claims(token) ELSE NoClaims

Authorization(prefix, token) ==
  [present |-> TRUE, prefix |-> prefix, token |-> token]

\* a middleware that takes the claims of any bearer token
authMiddleware_Unverified(h) ==
  IF ~h.present \/ h.prefix # "Bearer "
    THEN [status |-> 401, user |-> NoClaims]
    ELSE [status |-> 0, user |-> Claims(h.token)]

\* authMiddleware: status 401 and no next(), or req.user = decoded
authMiddleware(h) ==
  IF ~h.present \/ h.prefix # "Bearer "
    THEN [status |-> 401, user |-> NoClaims]
  ELSE IF verifyToken(h.token) = NoClaims
    THEN [status |-> 401, user |-> NoClaims]
  ELSE [status |-> 0, user |-> verifyToken(h.token)]

\* userQueries.findById: SELECT id, username, email, created_at
findById(id) ==
  {[id |-> u.id, username |-> u.username, email |-> u.email] : u \in {x \in users : x.id = id}}

\* a text parameter compared with an INTEGER PRIMARY KEY: the column's
\* affinity turns a well-formed integer text into that integer, any other
\* text equals no id
IdMatches(param, id) ==
  /\ param # <<>>
  /\ \A i \in 1..Len(param) : IsDigit(param[i])
  /\ DigitsToNum(param) = id

\* savedSearchQueries.getByUser / bookmarkQueries.getByUser
SearchesByUser(userId) == {r \in saved_searches : r.user_id = userId}

BookmarksByUser(userId) == {r \in bookmarked_articles : r.user_id = userId}

\* a delete without the owner condition
DeleteRows_AnyOwner(rows, param, userId) ==
  {r \in rows : ~IdMatches(param, r.id)}

\* DELETE FROM ... WHERE id = ? AND user_id = ?
DeleteRows(rows, param, userId) ==
  {r \in rows : ~(IdMatches(param, r.id) /\ r.user_id = userId)}

\* a lookup that finds the URL among the bookmarks of every user
checkExists_AnyUser(userId, articleUrl) ==
  {r \in bookmarked_articles : r.article_url = articleUrl}

\* bookmarkQueries.checkExists: WHERE user_id = ? AND article_url = ?
checkExists(userId, articleUrl) ==
  {r \in bookmarked_articles : r.user_id = userId /\ r.article_url = articleUrl}

\* validator isURL on the texts the clients send: no blank, and a dot
\* between a host label and a top-level domain of two letters or more
isURL(s) ==
  /\ \A i \in 1..Len(s) : s[i] # " "
  /\ \E i \in 2..(Len(s) - 2) :
       /\ s[i] = "."
       /\ s[i - 1] \in LowerLetters
       /\ s[i + 1] \in LowerLetters
       /\ s[i + 2] \in LowerLetters

\* body('query').trim().isLength({ min: 1, max: 100 })
ValidSavedQuery(text) == Len(trim(text)) >= 1 /\ Len(trim(text)) <= 100

\* body('articleUrl').trim().isURL(), body('articleTitle').trim().notEmpty()
ValidBookmark(b) == isURL(trim(b.text)) /\ trim(b.title) # <<>>


UserRecord(q, status, user, rows, id, ran) ==
  [n |-> ureq.n + 1, q |-> q, status |-> status, user |-> user,
   rows |-> rows, id |-> id, ran |-> ran]

\* generalLimiter counts the request, and authLimiter too when the route is
\* under /api/auth/; the clients of the model stay within both maxima
PassUserLimiters(route) ==
  /\ userBudget > 0
  /\ userBudget' = userBudget - 1
  /\ generalHits < GENERAL_MAX
  /\ generalHits' = generalHits + 1
  /\ IF route = "me"
       THEN authHits < AUTH_MAX /\ authHits' = authHits + 1
       ELSE authHits' = authHits

UserRoutes ==
  {"me", "getSearches", "saveSearch", "deleteSearch",
   "getBookmarks", "addBookmark", "deleteBookmark"}

\* authMiddleware answers 401 and does not call next()
Unauthorized(q) ==
  /\ q.route \in UserRoutes
  /\ PassUserLimiters(q.route)
  /\ authMiddleware(q.header).status = 401
  /\ ureq' = UserRecord(q, 401, NoClaims, {}, 0, FALSE)
  /\ UNCHANGED <<saved_searches, bookmarked_articles, nextSearchId,
                 nextBookmarkId, newsVars, probe, cacheTtl, frontend, apiHits, users,
                 nextUserId, authBudget, auth>>

\* GET /api/auth/me
GetMe(q) ==
  /\ q.route = "me"
  /\ PassUserLimiters(q.route)
  /\ authMiddleware(q.header).status = 0
  /\ LET user == authMiddleware(q.header).user
     IN  ureq' = IF findById(user.userId) = {}
                   THEN UserRecord(q, 404, user, {}, 0, TRUE)
                   ELSE UserRecord(q, 200, user, findById(user.userId), 0, TRUE)
  /\ UNCHANGED <<saved_searches, bookmarked_articles, nextSearchId,
                 nextBookmarkId, newsVars, probe, cacheTtl, frontend, apiHits, users,
                 nextUserId, authBudget, auth>>

\* GET /api/user/searches
GetSearches(q) ==
  /\ q.route = "getSearches"
  /\ PassUserLimiters(q.route)
  /\ authMiddleware(q.header).status = 0
  /\ LET user == authMiddleware(q.header).user
     IN  ureq' = UserRecord(q, 200, user, SearchesByUser(user.userId), 0, TRUE)
  /\ UNCHANGED <<saved_searches, bookmarked_articles, nextSearchId,
                 nextBookmarkId, newsVars, probe, cacheTtl, frontend, apiHits, users,
                 nextUserId, authBudget, auth>>

\* POST /api/user/searches
SaveSearch(q) ==
  /\ q.route = "saveSearch"
  /\ PassUserLimiters(q.route)
  /\ authMiddleware(q.header).status = 0
  /\ LET user == authMiddleware(q.header).user
     IN  IF ~ValidSavedQuery(q.arg.text)
           THEN /\ ureq' = UserRecord(q, 400, user, {}, 0, TRUE)
                /\ UNCHANGED <<saved_searches, nextSearchId>>
           ELSE /\ saved_searches' = saved_searches \cup
                     {[id |-> nextSearchId, user_id |-> user.userId,
                       query |-> trim(q.arg.text)]}
                /\ nextSearchId' = nextSearchId + 1
                /\ ureq' = UserRecord(q, 201, user, {}, nextSearchId, TRUE)
  /\ UNCHANGED <<bookmarked_articles, nextBookmarkId, newsVars, probe,
                 cacheTtl, frontend, apiHits, users, nextUserId, authBudget, auth>>

\* DELETE /api/user/searches/:id
DeleteSearch(q) ==
  /\ q.route = "deleteSearch"
  /\ PassUserLimiters(q.route)
  /\ authMiddleware(q.header).status = 0
  /\ LET user == authMiddleware(q.header).user
     IN  /\ saved_searches' = DeleteRows(saved_searches, q.arg.text, user.userId)
         /\ ureq' = UserRecord(q, 200, user, {}, 0, TRUE)
  /\ UNCHANGED <<bookmarked_articles, nextSearchId, nextBookmarkId, newsVars,
                 probe, cacheTtl, frontend, apiHits, users, nextUserId, authBudget, auth>>

\* GET /api/user/bookmarks
GetBookmarks(q) ==
  /\ q.route = "getBookmarks"
  /\ PassUserLimiters(q.route)
  /\ authMiddleware(q.header).status = 0
  /\ LET user == authMiddleware(q.header).user
     IN  ureq' = UserRecord(q, 200, user, BookmarksByUser(user.userId), 0, TRUE)
  /\ UNCHANGED <<saved_searches, bookmarked_articles, nextSearchId,
                 nextBookmarkId, newsVars, probe, cacheTtl, frontend, apiHits, users,
                 nextUserId, authBudget, auth>>

\* POST /api/user/bookmarks: 400, 409 when the user holds the URL, or the
\* INSERT and 201
AddBookmark(q) ==
  /\ q.route = "addBookmark"
  /\ PassUserLimiters(q.route)
  /\ authMiddleware(q.header).status = 0
  /\ LET user == authMiddleware(q.header).user
         articleUrl == trim(q.arg.text)
     IN  IF ~ValidBookmark(q.arg)
           THEN /\ ureq' = UserRecord(q, 400, user, {}, 0, TRUE)
                /\ UNCHANGED <<bookmarked_articles, nextBookmarkId>>
         ELSE IF checkExists(user.userId, articleUrl) # {}
           THEN /\ ureq' = UserRecord(q, 409, user, {}, 0, TRUE)
                /\ UNCHANGED <<bookmarked_articles, nextBookmarkId>>
         ELSE IF \E r \in bookmarked_articles :
                   r.user_id = user.userId /\ r.article_url = articleUrl
           THEN \* the INSERT violates UNIQUE(user_id, article_url) and throws
                /\ ureq' = UserRecord(q, 500, user, {}, 0, TRUE)
                /\ UNCHANGED <<bookmarked_articles, nextBookmarkId>>
         ELSE /\ bookmarked_articles' = bookmarked_articles \cup
                   {[id |-> nextBookmarkId, user_id |-> user.userId,
                     article_url |-> articleUrl,
                     article_title |-> trim(q.arg.title)]}
              /\ nextBookmarkId' = nextBookmarkId + 1
              /\ ureq' = UserRecord(q, 201, user, {}, nextBookmarkId, TRUE)
  /\ UNCHANGED <<saved_searches, nextSearchId, newsVars, probe, cacheTtl, frontend,
                 apiHits, users, nextUserId, authBudget, auth>>

\* DELETE /api/user/bookmarks/:id
DeleteBookmark(q) ==
  /\ q.route = "deleteBookmark"
  /\ PassUserLimiters(q.route)
  /\ authMiddleware(q.header).status = 0
  /\ LET user == authMiddleware(q.header).user
     IN  /\ bookmarked_articles' =
              DeleteRows(bookmarked_articles, q.arg.text, user.userId)
         /\ ureq' = UserRecord(q, 200, user, {}, 0, TRUE)
  /\ UNCHANGED <<saved_searches, nextSearchId, nextBookmarkId, newsVars, probe,
                 cacheTtl, frontend, apiHits, users, nextUserId, authBudget, auth>>

\* the accounts of ann and bob, registered in an earlier run
UserAnn ==
  [id |-> 1, username |-> S_ann, email |-> E_ann,
   password_hash |-> hashPassword(P_secret)]

UserBob ==
  [id |-> 2, username |-> S_bob, email |-> E_bob,
   password_hash |-> hashPassword(P_secret)]

\* the token a login of the user returns
TokenOf(u) == generateToken(u.id, u.username, u.email)

\* the Authorization headers the clients send: none, another scheme, the
\* scheme in lower case, a token signed with another secret, a token past
\* its expiry, and the tokens of ann and bob
HeaderInputs ==
  { NoAuthorization,
    Authorization("Basic a", TokenOf(UserAnn)),
    Authorization("bearer ", TokenOf(UserAnn)),
    Authorization("Bearer ", [TokenOf(UserAnn) EXCEPT !.key = "guess"]),
    Authorization("Bearer ", [TokenOf(UserBob) EXCEPT !.exp = now]),
    Authorization("Bearer ", TokenOf(UserAnn)),
    Authorization("Bearer ", TokenOf(UserBob)) }

U_a == <<"x", ".", "i", "o", "/", "a">>
U_b == <<"x", ".", "i", "o", "/", "b">>
T_news == <<"n", "e", "w", "s">>

\* req.body of POST /api/user/bookmarks: articleUrl and articleTitle
Bookmark(articleUrl, articleTitle) == [text |-> articleUrl, title |-> articleTitle]

\* req.params.id, or req.body.query
Text(text) == [text |-> text, title |-> <<>>]

\* route and parameter of the requests the clients send
RouteInputs ==
  { <<"me", NoArg>>,
    <<"getSearches", NoArg>>,
    <<"saveSearch", Text(S_aapl)>>,
    <<"saveSearch", Text(<<" ">>)>>,
    <<"deleteSearch", Text(<<"1">>)>>,
    <<"deleteSearch", Text(<<"2">>)>>,
    <<"deleteSearch", Text(<<"x">>)>>,
    <<"getBookmarks", NoArg>>,
    <<"addBookmark", Bookmark(U_a, T_news)>>,
    <<"addBookmark", Bookmark(<<" ">> \o U_a, T_news)>>,
    <<"addBookmark", Bookmark(U_b, T_news)>>,
    <<"addBookmark", Bookmark(T_news, T_news)>>,
    <<"deleteBookmark", Text(<<"1">>)>>,
    <<"deleteBookmark", Text(<<"0", "2">>)>> }

UserInputs ==
  {UserRequest(ra[1], h, ra[2]) : ra \in RouteInputs, h \in HeaderInputs}

InitUser ==
  /\ NewsInit(0)
  /\ users = {UserAnn, UserBob}
  /\ nextUserId = 3
  /\ authHits = 0
  /\ authBudget = 0
  /\ auth = <<>>
  /\ probe = NoProbe
  /\ UserInit(MaxUserRequests)
  /\ PageLoad

NextUser ==
  \/ \E q \in UserInputs : Unauthorized(q)
  \/ \E q \in UserInputs : GetMe(q)
  \/ \E q \in UserInputs : GetSearches(q)
  \/ \E q \in UserInputs : SaveSearch(q)
  \/ \E q \in UserInputs : DeleteSearch(q)
  \/ \E q \in UserInputs : GetBookmarks(q)
  \/ \E q \in UserInputs : AddBookmark(q)
  \/ \E q \in UserInputs : DeleteBookmark(q)

SpecUser == InitUser /\ [][NextUser]_vars

\* ------------------------------------------------------------------------
\* The page in the browser: search box, debounce timer, pagination buttons
\* ------------------------------------------------------------------------
\* how many searches the user starts
MaxSearches == 3

\* what the user types into the search box
SearchTexts == {<<"a">>, <<"b">>, <<" ">>}

\* searchNews(page), up to the await of fetch: an empty query shows an error
\* and starts nothing; otherwise the search becomes the current one, the
\* results are cleared and the request is sent
searchNews(f, page) ==
  LET query == trim(f.searchInput)
  IN  IF query = <<>>
        THEN [f EXCEPT !.results = "error", !.shown = NoArticles]
        ELSE [f EXCEPT !.currentQuery = query,
                       !.currentPage = page,
                       !.loading = TRUE,
                       !.results = "empty",
                       !.shown = NoArticles,
                       !.pagination = [@ EXCEPT !.visible = FALSE],
                       !.fetches = @ \cup {[n |-> f.started + 1,
                                            query |-> query, page |-> page]},
                       !.started = @ + 1]

\* updatePagination(pagination)
updatePagination(pg, pagination) ==
  IF pagination.total <= pagination.limit
    THEN [pg EXCEPT !.visible = FALSE]
    ELSE [visible |-> TRUE, page |-> pagination.page,
          hasMore |-> pagination.hasMore]

FrontendUnchanged ==
  UNCHANGED <<newsVars, authVars, probe, limiterVars, cacheTtl, userVars>>

\* the input event: debounceSearch clears the timer and arms it again
debounceSearch(text) ==
  /\ frontend' = [frontend EXCEPT !.searchInput = text,
                                  !.searchDebounceTimer = TRUE]
  /\ FrontendUnchanged

\* the debounce timer fires, 500 ms after the last input event
DebounceFires ==
  /\ frontend.searchDebounceTimer
  /\ frontend.started < MaxSearches
  /\ frontend' = searchNews([frontend EXCEPT !.searchDebounceTimer = FALSE], 1)
  /\ FrontendUnchanged

\* a click on the search button, or Enter in the search box: neither
\* clears the debounce timer
SearchClick ==
  /\ frontend.started < MaxSearches
  /\ frontend' = searchNews(frontend, 1)
  /\ FrontendUnchanged

\* a click on the previous-page button, which is enabled off page 1
PrevPageClick ==
  /\ frontend.pagination.visible
  /\ frontend.pagination.page # 1
  /\ frontend.currentPage > 1
  /\ frontend.started < MaxSearches
  /\ frontend' = searchNews(frontend, frontend.currentPage - 1)
  /\ FrontendUnchanged

\* a click on the next-page button, which is enabled while hasMore
NextPageClick ==
  /\ frontend.pagination.visible
  /\ frontend.pagination.hasMore
  /\ frontend.started < MaxSearches
  /\ frontend' = searchNews(frontend, frontend.currentPage + 1)
  /\ FrontendUnchanged

\* a pending fetch resolves with success: searchNews resumes after its
\* awaits and shows the articles and the pagination of the answer
FetchResolves(r) ==
  /\ r \in frontend.fetches
  /\ \E total \in {0, 20, 21 + 20 * r.page} :
       LET data == [articles |-> [query |-> r.query, page |-> r.page],
                    pagination |-> [page |-> r.page, limit |-> 20,
                                    total |-> total,
                                    hasMore |-> r.page * 20 < total]]
       IN  frontend' = [frontend EXCEPT
                          !.loading = FALSE,
                          !.allArticles = data.articles,
                          !.results = "articles",
                          !.shown = data.articles,
                          !.pagination = updatePagination(@, data.pagination),
                          !.fetches = @ \ {r}]
  /\ FrontendUnchanged

\* a pending fetch is answered without success, or rejects
FetchFails(r) ==
  /\ r \in frontend.fetches
  /\ frontend' = [frontend EXCEPT !.loading = FALSE,
                                  !.results = "error",
                                  !.shown = NoArticles,
                                  !.fetches = @ \ {r}]
  /\ FrontendUnchanged

InitFrontend == InitWith(0)

NextFrontend ==
  \/ \E text \in SearchTexts : debounceSearch(text)
  \/ DebounceFires
  \/ SearchClick
  \/ PrevPageClick
  \/ NextPageClick
  \/ \E r \in frontend.fetches : FetchResolves(r)
  \/ \E r \in frontend.fetches : FetchFails(r)

SpecFrontend == InitFrontend /\ [][NextFrontend]_vars

\* ------------------------------------------------------------------------
\* Properties
\* ------------------------------------------------------------------------
Done(j) == reqs[j].pc = "done"

PageOf(j) == ToNumber(Destructure(reqs[j].p).page)

LimitOf(j) == ToNumber(Destructure(reqs[j].p).limit)

TotalOf(j) == Len(reqs[j].full)

\* the elements at 0-based positions from (inclusive) up to to (exclusive)
Positions(seq, from, to) ==
  IF from >= to THEN <<>> ELSE SubSeq(seq, from + 1, to)

\* C1: every successful response carries exactly the elements at positions
\* (p-1)*L up to min(p*L, T) of the full annotated sequence, for the page p
\* and limit L in effect, defaulted or supplied.
C1_PageIsSlice ==
  \A j \in 1..Len(reqs) :
    reqs[j].status = 200 =>
      reqs[j].body.articles =
        JSONstringify(Positions(reqs[j].full, (PageOf(j) - 1) * LimitOf(j),
                                Min(PageOf(j) * LimitOf(j), TotalOf(j)))).json

\* C2: every successful response reports total = T and hasMore exactly when
\* page * limit < T.
C2_TotalAndHasMore ==
  \A j \in 1..Len(reqs) :
    reqs[j].status = 200 =>
      /\ reqs[j].body.total = TotalOf(j)
      /\ reqs[j].body.hasMore = (PageOf(j) * LimitOf(j) < TotalOf(j))

\* what a request asks for: the provider call, the page and the page size
Effective(j) ==
  LET d == Destructure(reqs[j].p)
  IN  <<fetchNewsFromFinnhub(d), ToNumber(d.page), ToNumber(d.limit)>>

\* C3: two served requests have the same cache key if and only if they have
\* the same effective query parameters.
C3_KeyIffEffective ==
  \A i, j \in 1..Len(reqs) :
    (reqs[i].status = 200 /\ reqs[j].status = 200) =>
      ((reqs[i].key = reqs[j].key) <=> (Effective(i) = Effective(j)))

\* C4: a payload served from a cache layer comes from an entry that was not
\* expired in that layer when it was looked up: in the in-process layer its
\* expiry time was not before the clock, in the persistent layer its
\* expires_at was after the clock; this holds whether or not a purge ran.
C4_ServedEntryLive ==
  \A j \in 1..Len(reqs) :
    /\ reqs[j].layer = "mem" => reqs[j].ttlLeft >= 0
    /\ reqs[j].layer = "db" => reqs[j].ttlLeft > 0

\* a request found only entries whose expiry had passed, in a table that
\* still held the expired row, and was answered with freshly fetched articles
C4_Witness ==
  \E j \in 1..Len(reqs) :
    /\ reqs[j].stale
    /\ reqs[j].layer = "none"
    /\ reqs[j].status = 200
    /\ \E r \in news_cache : r.query = reqs[j].key /\ r.expires_at <= now

\* C5: a request that arrives while an entry for its key is live in at least
\* one cache layer is answered from the cache, without a provider call.
C5_LiveEntryIsServed ==
  \A j \in 1..Len(reqs) :
    reqs[j].live =>
      /\ reqs[j].status = 200
      /\ reqs[j].layer \in {"mem", "db"}
      /\ "provider" \notin reqs[j].io

\* C6: a lookup answered by a cache layer before the TTL of the latest
\* store into that layer for its key has elapsed returns the payload of
\* that store, up to JSON serialization.
C6_LookupReturnsStored ==
  \A j \in 1..Len(reqs) :
    /\ (reqs[j].layer = "mem" /\ reqs[j].fresh) => reqs[j].isStored
    /\ (reqs[j].layer = "db" /\ reqs[j].freshDb) => reqs[j].isStoredDb

\* a request completes its miss path in this step with a failed persistent
\* write
CompletesWithFailedWrite(j) ==
  /\ reqs'[j].dbWrite = "failed"
  /\ (j > Len(reqs) \/ reqs[j].dbWrite # "failed")

\* C7: when the persistent write of store fails, the request still answers
\* 200 with the pagination of the articles it fetched, and the in-process
\* layer holds those articles under the key.
C7_WriteFailureSwallowed ==
  [][\A j \in 1..Len(reqs') :
       CompletesWithFailedWrite(j) =>
         /\ reqs'[j].status = 200
         /\ reqs'[j].body = Paginate(reqs'[j].full, Destructure(reqs'[j].p))
         /\ reqs'[j].key \in DOMAIN apiCache'
         /\ apiCache'[reqs'[j].key].v = reqs'[j].full]_vars

\* a request whose persistent write failed was answered 200 with articles
C7_Witness ==
  \E j \in 1..Len(reqs) :
    /\ reqs[j].dbWrite = "failed"
    /\ reqs[j].status = 200
    /\ reqs[j].body.total > 0

\* C8: the only failures a caller sees are validation failures (400) and
\* provider failures (500 after a provider call); a cache-tier failure
\* never changes the outcome.
C8_OnlyValidationAndProviderFailures ==
  \A j \in 1..Len(reqs) :
    (Done(j) /\ reqs[j].status # 200) =>
      \/ (reqs[j].status = 400 /\ ~validationOk(reqs[j].p))
      \/ (reqs[j].status = 500 /\ "provider" \in reqs[j].io)

\* the request supplies a limit above 50 or a page below 1
OutOfRange(p) ==
  \/ (p.limit.type = "string" /\ DigitsToNum(p.limit.str) > 50)
  \/ (p.page.type = "string" /\ DigitsToNum(p.page.str) < 1)

\* C9: a request with limit > 50 or page < 1 is answered 400 and touches
\* neither cache layer nor the provider; a served request that omits page
\* uses page 1 and one that omits limit uses limit 20.
C9_OutOfRangeRejected ==
  \A j \in 1..Len(reqs) :
    /\ OutOfRange(reqs[j].p) =>
         (Done(j) /\ reqs[j].status = 400 /\ reqs[j].io = {})
    /\ (reqs[j].status = 200 /\ reqs[j].p.page.type = "undefined") =>
         reqs[j].body.page = 1
    /\ (reqs[j].status = 200 /\ reqs[j].p.limit.type = "undefined") =>
         reqs[j].body.limit = 20

\* both an over-limit request and a below-one page were rejected
C9_Witness ==
  /\ \E j \in 1..Len(reqs) :
       /\ reqs[j].p.limit.type = "string"
       /\ DigitsToNum(reqs[j].p.limit.str) > 50
       /\ reqs[j].status = 400
  /\ \E j \in 1..Len(reqs) :
       /\ reqs[j].p.page.type = "string"
       /\ DigitsToNum(reqs[j].p.page.str) < 1
       /\ reqs[j].status = 400

\* C10: a request with neither query nor category is answered 400 before
\* any cache lookup or provider call.
C10_NoTermRejected ==
  \A j \in 1..Len(reqs) :
    (reqs[j].p.query.type = "undefined" /\ reqs[j].p.category.type = "undefined") =>
      (Done(j) /\ reqs[j].status = 400 /\ reqs[j].io = {})

\* the rows of the table stored under a key
RowsOf(rows, k) == {r \in rows : r.query = k}

\* C11: when the provider call of a request fails, the request ends with one
\* 500 response that carries no articles and is served by no cache layer,
\* neither cache layer gains or changes an entry for the key, the expired
\* entries for the key are not served, and a request that has been answered
\* is never taken up again (no second provider call).
C11_ProviderFailureIsFinal ==
  [][/\ \A j \in 1..Len(reqs) :
          ProviderFail(j) =>
            /\ reqs'[j].pc = "done"
            /\ reqs'[j].status = 500
            /\ reqs'[j].body = NoBody
            /\ reqs'[j].layer = "none"
            /\ RowsOf(news_cache', reqs[j].key) = RowsOf(news_cache, reqs[j].key)
            /\ (reqs[j].key \in DOMAIN apiCache' =>
                  /\ reqs[j].key \in DOMAIN apiCache
                  /\ apiCache'[reqs[j].key] = apiCache[reqs[j].key])
     /\ \A j \in 1..Len(reqs) :
          reqs[j].pc = "done" => reqs'[j] = reqs[j]]_vars

\* a request that found only expired entries for its key, made the provider
\* call and was answered 500 while an expired row for the key is in the table
C11_Witness ==
  \E j \in 1..Len(reqs) :
    /\ reqs[j].stale
    /\ "provider" \in reqs[j].io
    /\ Done(j)
    /\ reqs[j].status = 500
    /\ \E r \in news_cache : r.query = reqs[j].key /\ r.expires_at <= now

\* request j is awaiting the provider while another request for its key is
\* too, or while an entry for its key written since its own miss is live
Overlapped(j) ==
  /\ reqs[j].pc = "fetching"
  /\ \/ \E i \in 1..Len(reqs) :
          i # j /\ reqs[i].key = reqs[j].key /\ reqs[i].pc = "fetching"
     \/ MemLive(reqs[j].key)
     \/ CacheGetRows(reqs[j].key) # {}

\* C13: a request whose miss overlaps another miss for the same key can
\* always take its provider's answer; when it completes, it either fails
\* because its own provider call threw, or it answers 200, the in-process
\* layer holds its articles, its row is added to the table unless its own
\* write failed, and the other requests are left as they were.
C13_ConcurrentMissesIndependent ==
  [][\A j \in 1..Len(reqs) :
       Overlapped(j) =>
         /\ ENABLED ProviderRespond(j)
         /\ reqs'[j].pc = "done" =>
              \/ ProviderFail(j)
              \/ /\ reqs'[j].status = 200
                 /\ reqs[j].key \in DOMAIN apiCache'
                 /\ apiCache'[reqs[j].key].v = reqs'[j].full
                 /\ reqs'[j].dbWrite = "ok" =>
                      \E r \in news_cache' \ news_cache :
                        /\ r.query = reqs[j].key
                        /\ r.response_data = JSONstringify(reqs'[j].full)
                 /\ \A i \in 1..Len(reqs) : i # j => reqs'[i] = reqs[i]]_vars

\* two requests for one key both fetched five articles and both stored them
\* in the same second: the table holds both rows (the second cannot have
\* missed after the first had stored, so their misses overlapped)
C13_Witness ==
  \E i, j \in 1..Len(reqs) :
    /\ i < j
    /\ reqs[i].key = reqs[j].key
    /\ reqs[i].status = 200 /\ reqs[j].status = 200
    /\ "provider" \in reqs[i].io /\ "provider" \in reqs[j].io
    /\ reqs[i].dbWrite = "ok" /\ reqs[j].dbWrite = "ok"
    /\ reqs[i].body.total = 5 /\ reqs[j].body.total = 5
    /\ now = 0
    /\ Cardinality(RowsOf(news_cache, reqs[i].key)) = 2

\* C12: every request that reaches the provider is eventually answered,
\* even when the provider never answers: the call is cut off by a timeout
\* and the request ends as a fetch failure.
C12_EveryFetchAnswered ==
  \A j \in 1..MaxRequests :
    (j <= Len(reqs) /\ reqs[j].pc = "fetching")
      ~> (j <= Len(reqs) /\ reqs[j].pc = "done")

\* the layers hold, for the key, a live entry and only empty live entries
LiveAndEmpty(k) ==
  \/ /\ k \in DOMAIN apiCache
     /\ apiCache[k].t >= now
     /\ apiCache[k].v = <<>>
  \/ /\ ~(k \in DOMAIN apiCache /\ apiCache[k].t >= now)
     /\ \E r \in news_cache : r.query = k /\ r.expires_at > now
     /\ \A r \in news_cache :
          (r.query = k /\ r.expires_at > now) => JSONparse(r.response_data) = <<>>

\* C14: when the provider returns zero articles the response has no
\* articles, total 0 and hasMore false, and an empty entry with the full TTL
\* is written to the in-process layer and, unless the write fails, to the
\* table; a request that arrives while such an entry is live does not call
\* the provider, and when it is answered 200 it is answered from a cache
\* layer with no articles, total 0 and hasMore false.
C14_EmptyResultIsCached ==
  [][/\ \A j \in 1..Len(reqs) :
          (reqs[j].pc = "fetching" /\ reqs'[j].status = 200
             /\ reqs'[j].full = <<>>) =>
            /\ reqs'[j].body.articles = <<>>
            /\ reqs'[j].body.total = 0
            /\ reqs'[j].body.hasMore = FALSE
            /\ reqs[j].key \in DOMAIN apiCache'
            /\ apiCache'[reqs[j].key] = [v |-> <<>>, t |-> now + CACHE_TTL]
            /\ reqs'[j].dbWrite = "ok" =>
                 \E r \in news_cache' \ news_cache :
                   /\ r.query = reqs[j].key
                   /\ JSONparse(r.response_data) = <<>>
                   /\ r.expires_at = now + CACHE_TTL
     /\ (Len(reqs') = Len(reqs) + 1 /\ LiveAndEmpty(reqs'[Len(reqs')].key)) =>
          /\ "provider" \notin reqs'[Len(reqs')].io
          /\ reqs'[Len(reqs')].pc = "done"
          /\ reqs'[Len(reqs')].status = 200 =>
               /\ reqs'[Len(reqs')].layer \in {"mem", "db"}
               /\ reqs'[Len(reqs')].body.articles = <<>>
               /\ reqs'[Len(reqs')].body.total = 0
               /\ reqs'[Len(reqs')].body.hasMore = FALSE]_vars

\* a provider answer of zero articles was stored, and a later request for
\* the key within the TTL was served the empty list by the in-process layer
C14_Witness ==
  \E i, j \in 1..Len(reqs) :
    /\ i < j
    /\ reqs[i].key = reqs[j].key
    /\ "provider" \in reqs[i].io
    /\ reqs[i].status = 200
    /\ reqs[i].full = <<>>
    /\ reqs[j].layer = "mem"
    /\ reqs[j].fresh
    /\ reqs[j].status = 200
    /\ reqs[j].body.total = 0

\* the request was answered with articles synthesized in fallback mode
ServedMock(j) ==
  /\ reqs[j].status = 200
  /\ reqs[j].layer = "none"
  /\ "provider" \notin reqs[j].io

\* C15: in fallback mode every mock article carries the sentiment label the
\* scorer's thresholds give for its sentimentScore, and the impact the
\* classifier gives for its age (i hours for the article of index i) and
\* its sentimentScore.
C15_MockIsAnnotated ==
  \A j \in 1..Len(reqs) :
    ServedMock(j) =>
      \A k \in 1..Len(reqs[j].full) :
        /\ reqs[j].full[k].sentiment =
             SentimentLabel(reqs[j].full[k].sentimentScore)
        /\ reqs[j].full[k].impact =
             calculateImpact(reqs[j].full[k].id - 1,
                             reqs[j].full[k].sentimentScore)

\* C16: every article of every 200 response has a sentiment in {positive,
\* neutral, negative} and an impact in {high, medium, low}, whichever way
\* the response was produced; a response built from a provider answer of n
\* raw articles holds the articles 1..n in order and reports total = n.
C16_ArticlesLabelled ==
  \A j \in 1..Len(reqs) :
    reqs[j].status = 200 =>
      /\ \A k \in 1..Len(reqs[j].body.articles) :
           /\ reqs[j].body.articles[k].sentiment \in
                {"positive", "neutral", "negative"}
           /\ reqs[j].body.articles[k].impact \in {"high", "medium", "low"}
      /\ "provider" \in reqs[j].io =>
           /\ reqs[j].body.total \in ProviderLengths
           /\ Len(reqs[j].full) = reqs[j].body.total
           /\ \A k \in 1..Len(reqs[j].full) : reqs[j].full[k].id = k

\* a provider answer of five articles was served, and a later request was
\* served articles out of a cache layer
C16_Witness ==
  /\ \E j \in 1..Len(reqs) :
       /\ "provider" \in reqs[j].io
       /\ reqs[j].status = 200
       /\ reqs[j].body.total = 5
       /\ Len(reqs[j].body.articles) = 5
  /\ \E j \in 1..Len(reqs) :
       /\ reqs[j].layer \in {"mem", "db"}
       /\ reqs[j].status = 200
       /\ Len(reqs[j].body.articles) > 0

\* C17: analyzeSentiment returns without raising for every text, null and
\* undefined included; its label is positive exactly when comparative > 0.5,
\* negative exactly when comparative < -0.5 and neutral otherwise; for the
\* empty string, null and undefined it returns score 0, comparative 0 and
\* the label neutral.
C17_SentimentLabelThresholds ==
  (probe.fn = "analyzeSentiment" /\ probe.pc = "returned") =>
    /\ ~probe.out.raised
    /\ probe.out.label \in {"positive", "neutral", "negative"}
    /\ probe.out.label = "positive" <=>
         2 * probe.out.comparative.num > probe.out.comparative.den
    /\ probe.out.label = "negative" <=>
         2 * probe.out.comparative.num < -probe.out.comparative.den
    /\ (probe.text.type # "string" \/ probe.text.str = <<>>) =>
         /\ probe.out.score = 0
         /\ probe.out.comparative.num = 0
         /\ probe.out.label = "neutral"

\* a text whose comparative is exactly one half was labelled neutral
C17_Witness ==
  /\ probe.fn = "analyzeSentiment"
  /\ probe.pc = "returned"
  /\ probe.out.score > 0
  /\ 2 * probe.out.comparative.num = probe.out.comparative.den
  /\ probe.out.label = "neutral"

\* C18: with hoursAgo the age of the article and magnitude the absolute
\* value of its sentimentScore, the impact is high exactly when hoursAgo < 2
\* and magnitude > 0.3, medium exactly when it is not high and hoursAgo < 12
\* and magnitude > 0.1, and low in every other case.
C18_ImpactRule ==
  (probe.fn = "calculateImpact" /\ probe.pc = "returned") =>
    LET hoursAgo == probe.ageHours
        magnitude == IF probe.sentimentScore < 0 THEN -probe.sentimentScore
                     ELSE probe.sentimentScore
        high == hoursAgo < 2 /\ magnitude > 30
        medium == ~high /\ hoursAgo < 12 /\ magnitude > 10
    IN  /\ probe.out = "high" <=> high
        /\ probe.out = "medium" <=> medium
        /\ probe.out = "low" <=> (~high /\ ~medium)

\* an article one hour old whose magnitude is exactly 0.3 was classified
\* medium
C18_Witness ==
  /\ probe.fn = "calculateImpact"
  /\ probe.pc = "returned"
  /\ probe.ageHours = 1
  /\ probe.sentimentScore = -30
  /\ probe.out = "medium"

\* the registration of request j is answered in this step, and in the state
\* before it a user holds its username or its email
AnsweredWhileHeld(j) ==
  /\ auth'[j].r.kind = "register"
  /\ auth'[j].pc = "done"
  /\ (j > Len(auth) \/ auth[j].pc # "done")
  /\ auth'[j].status # 429
  /\ RegisterValid(auth'[j].r)
  /\ \E u \in users :
       \/ u.username = BodyOf(auth'[j].r).username
       \/ u.email = BodyOf(auth'[j].r).email

\* C19: a valid registration whose username or email is held by a user when
\* it is answered, whether that user existed when the request arrived or
\* was created while the request was being processed, is answered 409 and
\* leaves the users table unchanged.
C19_DuplicateIsConflict ==
  [][\A j \in 1..Len(auth') :
       AnsweredWhileHeld(j) => (auth'[j].status = 409 /\ users' = users)]_vars

\* C20: every registration of a batch of distinct users sent together by
\* one client is answered 201, and every login that follows with a
\* registered email and its password is answered 200 with a token.
C20_BatchSucceeds ==
  \A j \in 1..Len(auth) :
    auth[j].pc = "done" =>
      /\ auth[j].r.kind = "register" => auth[j].status = 201
      /\ auth[j].r.kind = "login" =>
           (auth[j].status = 200 /\ auth[j].token # NoToken)

\* the request that opened the limiter window request j was counted in
WindowStartOf(j) ==
  LET starts == {i \in 1..j : reqs[i].hit = 1}
  IN  IF starts = {} THEN 1 ELSE CHOOSE i \in starts : \A o \in starts : o <= i

\* the requests up to j that were handled (not refused by a limiter) in the
\* limiter window of request j
HandledInWindow(j) == {i \in WindowStartOf(j)..j : reqs[i].status # 429}

\* C21: within one window of apiLimiter no more than API_MAX requests for
\* /api/news are handled; a request counted beyond a limiter's max is
\* answered 429 and touches neither cache layer nor the provider; a request
\* counted within both maxima is handled.
C21_BurstIsLimited ==
  \A j \in 1..Len(reqs) :
    /\ Cardinality(HandledInWindow(j)) <= API_MAX
    /\ (reqs[j].hit > API_MAX \/ reqs[j].ghit > GENERAL_MAX)
         => reqs[j].status = 429 /\ reqs[j].io = {} /\ reqs[j].key = <<>>
    /\ (reqs[j].hit \in 1..API_MAX /\ reqs[j].ghit <= GENERAL_MAX)
         => reqs[j].status = 200 /\ "memRead" \in reqs[j].io

\* API_MAX requests were served, the next was refused, and after the window
\* the client is served again
C21_Witness ==
  \E i, j \in 1..Len(reqs) :
    /\ i < j
    /\ reqs[i].hit = API_MAX + 1
    /\ reqs[i].status = 429
    /\ Cardinality(HandledInWindow(i)) = API_MAX
    /\ reqs[j].hit = 1
    /\ reqs[j].status = 200

\* the Authorization header carries a Bearer token signed with JWT_SECRET
\* whose expiry lies ahead
CarriesValidToken(h) ==
  /\ h.present
  /\ h.prefix = "Bearer "
  /\ h.token.key = JWT_SECRET
  /\ h.token.exp > now

\* C22: a request to an authenticated route without a Bearer token, or with
\* a token that fails verification, is answered 401, the route handler does
\* not run and no table is read or written; a request with a valid token
\* is admitted with req.user set to the token's claims.
C22_TokenGatesRoutes ==
  [][ureq'.n # ureq.n =>
       IF CarriesValidToken(ureq'.q.header)
         THEN /\ ureq'.status # 401
              /\ ureq'.ran
              /\ ureq'.user.userId = ureq'.q.header.token.userId
              /\ ureq'.user.username = ureq'.q.header.token.username
              /\ ureq'.user.email = ureq'.q.header.token.email
         ELSE /\ ureq'.status = 401
              /\ ~ureq'.ran
              /\ ureq'.rows = {}
              /\ ureq'.id = 0
              /\ UNCHANGED <<users, nextUserId, saved_searches, nextSearchId,
                             bookmarked_articles, nextBookmarkId>>]_vars

\* a delete that names an existing bookmark was sent with a Bearer token
\* that does not verify, and was answered 401
C22_Witness ==
  /\ ureq.status = 401
  /\ ureq.q.route = "deleteBookmark"
  /\ ureq.q.header.prefix = "Bearer "
  /\ \E r \in bookmarked_articles : IdMatches(ureq.q.arg.text, r.id)

\* C23: a user never holds two bookmarks of one article URL; adding a URL
\* the user holds is answered 409 and leaves the table unchanged; adding a
\* URL the user does not hold, held by another user or not, is answered
\* 201 and adds the bookmark.
C23_OneBookmarkPerUrl ==
  /\ [](\A a, b \in bookmarked_articles :
          (a.user_id = b.user_id /\ a.article_url = b.article_url) => a = b)
  /\ [][(/\ ureq'.n # ureq.n
         /\ ureq'.q.route = "addBookmark"
         /\ CarriesValidToken(ureq'.q.header)
         /\ ValidBookmark(ureq'.q.arg)) =>
          IF \E r \in bookmarked_articles :
               /\ r.user_id = ureq'.q.header.token.userId
               /\ r.article_url = trim(ureq'.q.arg.text)
            THEN /\ ureq'.status = 409
                 /\ UNCHANGED <<bookmarked_articles, nextBookmarkId>>
            ELSE /\ ureq'.status = 201
                 /\ \E r \in bookmarked_articles' \ bookmarked_articles :
                      /\ r.user_id = ureq'.q.header.token.userId
                      /\ r.article_url = trim(ureq'.q.arg.text)
                      /\ bookmarked_articles' = bookmarked_articles \cup {r}]_vars

\* two users hold the same URL and a second add by one of them was
\* answered 409
C23_Witness ==
  /\ ureq.status = 409
  /\ \E a, b \in bookmarked_articles :
       /\ a.user_id # b.user_id
       /\ a.article_url = b.article_url
       /\ a.user_id = ureq.user.userId
       /\ a.article_url = trim(ureq.q.arg.text)

\* the rows of a table that the user does not own
OwnedByOthers(rows, userId) == {r \in rows : r.user_id # userId}

\* C30: a delete request of a user, whatever id it names, leaves every
\* saved search and bookmark owned by another user unchanged, and the list
\* endpoints return to a user exactly the rows the user owns.
C30_PerUserIsolation ==
  [][(ureq'.n # ureq.n /\ CarriesValidToken(ureq'.q.header)) =>
       LET userId == ureq'.q.header.token.userId
       IN  /\ ureq'.q.route \in {"deleteSearch", "deleteBookmark"} =>
                /\ ureq'.status = 200
                /\ OwnedByOthers(saved_searches', userId)
                     = OwnedByOthers(saved_searches, userId)
                /\ OwnedByOthers(bookmarked_articles', userId)
                     = OwnedByOthers(bookmarked_articles, userId)
           /\ ureq'.q.route = "getSearches" =>
                ureq'.rows = {r \in saved_searches : r.user_id = userId}
           /\ ureq'.q.route = "getBookmarks" =>
                ureq'.rows = {r \in bookmarked_articles : r.user_id = userId}]_vars

\* a user's delete named a bookmark of another user, was answered 200, and
\* the bookmark is still there
C30_Witness ==
  /\ ureq.q.route = "deleteBookmark"
  /\ ureq.status = 200
  /\ \E r \in bookmarked_articles :
       IdMatches(ureq.q.arg.text, r.id) /\ r.user_id # ureq.user.userId

\* the request handled in this step: the one appended to the log
Arrives(j) == j = Len(reqs') /\ Len(reqs') = Len(reqs) + 1

\* the in-process layer holds an entry for the key that has not expired
LiveInProcess(k) == k \in DOMAIN apiCache /\ apiCache[k].t >= now

\* C24: a lookup reads the persistent store only when the in-process store
\* holds no live entry for the key; when the in-process store holds one,
\* and so when both layers do, its payload is the one served; and when a
\* persistent row is served, the in-process store holds the parsed payload
\* at the end of the step that produces the response.
C24_InProcessFirst ==
  [][\A j \in 1..Len(reqs') :
       (Arrives(j) /\ reqs'[j].key # <<>>) =>
         /\ "dbRead" \in reqs'[j].io => ~LiveInProcess(reqs'[j].key)
         /\ LiveInProcess(reqs'[j].key) =>
              /\ reqs'[j].layer = "mem"
              /\ reqs'[j].full = apiCache[reqs'[j].key].v
              /\ reqs'[j].io = {"memRead"}
         /\ reqs'[j].layer = "db" =>
              /\ reqs'[j].status = 200
              /\ reqs'[j].key \in DOMAIN apiCache'
              /\ apiCache'[reqs'[j].key].v = reqs'[j].full
              /\ apiCache'[reqs'[j].key].t >= now
              /\ \E r \in news_cache :
                   /\ r.query = reqs'[j].key
                   /\ r.expires_at > now
                   /\ JSONparse(r.response_data) = reqs'[j].full]_vars

\* both layers hold a live entry for a key, with payloads that differ, and
\* a request was answered from the in-process one; another was answered
\* from the persistent one after a restart
C24_Witness ==
  \E i, j \in 1..Len(reqs) :
    /\ reqs[i].layer = "mem"
    /\ reqs[i].full # JSONparse(JSONstringify(reqs[i].full))
    /\ reqs[j].layer = "db"
    /\ reqs[j].key \in DOMAIN apiCache
    /\ apiCache[reqs[j].key].v = reqs[j].full

\* two requests for one key both fetched from the provider and both wrote
\* their articles to both layers; the second cannot have missed after the
\* first had written, so their misses overlapped
BothWrote(i, j) ==
  /\ i # j
  /\ reqs[i].key = reqs[j].key
  /\ reqs[i].status = 200 /\ reqs[j].status = 200
  /\ "provider" \in reqs[i].io /\ "provider" \in reqs[j].io
  /\ reqs[i].dbWrite = "ok" /\ reqs[j].dbWrite = "ok"

\* C25: once two concurrent misses for a key have both written to the
\* cache, a lookup of the key in the in-process layer and a lookup in the
\* persistent layer both return the payload that was written last.
C25_LastWriterAuthoritative ==
  \A i, j \in 1..Len(reqs) :
    BothWrote(i, j) =>
      LET k == reqs[i].key
      IN  /\ MemLive(k) => apiCache[k].v = lastStore[k].v
          /\ \A r \in CacheGetNewest(k) :
               r.response_data = JSONstringify(lastStore[k].v)

\* C26: only the purge sweep removes rows, and every row it removes has an
\* expires_at before the clock, so it is not a row a lookup at that moment
\* returns; a sweep, whether its DELETE ran or threw, changes no request,
\* no in-process entry and no result of a lookup, and leaves the timer
\* armed one interval later, so a sweep is always due within an interval.
C26_SweepRemovesOnlyExpired ==
  /\ [](nextCleanup <= now + CLEANUP_INTERVAL)
  /\ [][/\ \A r \in news_cache \ news_cache' :
             /\ r.expires_at < now
             /\ r \notin CacheGetRows(r.query)
             /\ nextCleanup' # nextCleanup
        /\ nextCleanup' # nextCleanup =>
             /\ nextCleanup' = nextCleanup + CLEANUP_INTERVAL
             /\ news_cache' \subseteq news_cache
             /\ \A r \in news_cache : r.expires_at >= now => r \in news_cache'
             /\ UNCHANGED <<now, reqs, apiCache, lastStore, nextRowId, budget>>]_vars

\* the timer has fired twice, a sweep has removed a row, and a row that a
\* lookup returns is still in the table
C26_Witness ==
  /\ nextCleanup = 2 * CLEANUP_INTERVAL
  /\ Cardinality(news_cache) < nextRowId - 1
  /\ \E r \in news_cache : r \in CacheGetRows(r.query)

\* C27: a response served from a cache layer carries articles that were
\* stored, and so obtained from the provider or synthesized, no more than
\* CACHE_TTL seconds before the request arrived (the latest store for the
\* key is the most recent origin the served payload can have).
C27_ServedWithinOneTTL ==
  [][\A j \in 1..Len(reqs') :
       (Arrives(j) /\ reqs'[j].layer \in {"mem", "db"}) =>
         /\ reqs'[j].key \in DOMAIN lastStore
         /\ now <= lastStore[reqs'[j].key].at + CACHE_TTL]_vars

\* C28: while less than one TTL has passed since the first request, any two
\* answered requests for the same term and the same limit are slices of one
\* annotated sequence, so they report the same pagination.total.
C28_PagesShareOneSequence ==
  now < CACHE_TTL =>
    \A j, k \in 1..Len(reqs) :
      ( /\ reqs[j].pc = "done" /\ reqs[j].status = 200
        /\ reqs[k].pc = "done" /\ reqs[k].status = 200
        /\ Term(Destructure(reqs[j].p)) = Term(Destructure(reqs[k].p))
        /\ Destructure(reqs[j].p).limit = Destructure(reqs[k].p).limit ) =>
          reqs[j].body.total = reqs[k].body.total

\* C29: whenever no search is in flight and articles are displayed, the
\* displayed articles, allArticles and the pagination bar are those of the
\* most recently started search (currentQuery, currentPage).
C29_ShowsLatestSearch ==
  (frontend.fetches = {} /\ frontend.results = "articles") =>
    /\ frontend.shown = [query |-> frontend.currentQuery,
                         page |-> frontend.currentPage]
    /\ frontend.allArticles = frontend.shown
    /\ frontend.pagination.visible =>
         frontend.pagination.page = frontend.currentPage

====
